---- MODULE Spec2Model ----
(***************************************************************************)
(* Trigger evaluation and tool-permission resolution of the GitLab         *)
(* integration: GitLabTriggerValidator (src/gitlab/validation/trigger.ts)  *)
(* and the tool-list builders of create-prompt; further down the context   *)
(* fetcher (SpecFetch), the CI pipeline path of the validate and prepare   *)
(* entrypoints (SpecPipeline), the webhook receiver (SpecServer), the      *)
(* event labelling (SpecLabel), the hand-off from the receiver to the      *)
(* pipeline (SpecHandoff), the two resolved tool lists (SpecTools) and the *)
(* commit_files tool (SpecCommit).                                         *)
(*                                                                         *)
(* Text is a sequence of one-character strings, so that toLowerCase,       *)
(* includes, replace and the bot regular expressions are computed          *)
(* character by character as the code computes them.                       *)
(***************************************************************************)
EXTENDS Integers, Sequences, FiniteSets, TLC

VARIABLES config, call,
          world,        \* what surrounds a run: environment values, the
                        \* GitLab project, the collaborator calls that fail
          pc,           \* position of the running entrypoint or handler
          requests,     \* the requests issued to collaborators, in order
          locals,       \* local variables of the running function
          output        \* what the run has produced: exports, exit code,
                        \* HTTP response, log

run == <<world, pc, requests, locals, output>>
vars == <<config, call, world, pc, requests, locals, output>>

(***************************************************************************)
(* Bounds of the explored inputs.                                          *)
(***************************************************************************)
MaxChunks == 2      \* a text is a concatenation of at most MaxChunks chunks
MaxIid == 2         \* project-scoped ids range over 1..MaxIid
MaxTools == 2       \* caller tool lists have at most MaxTools entries

(***************************************************************************)
(* Characters and strings.                                                 *)
(***************************************************************************)
UpperChars == <<"A","B","C","D","E","F","G","H","I","J","K","L","M",
                "N","O","P","Q","R","S","T","U","V","W","X","Y","Z">>
LowerChars == <<"a","b","c","d","e","f","g","h","i","j","k","l","m",
                "n","o","p","q","r","s","t","u","v","w","x","y","z">>

\* String.prototype.toLowerCase on one ASCII character
LowerChar(c) ==
    IF \E i \in 1..26 : UpperChars[i] = c
    THEN LowerChars[CHOOSE i \in 1..26 : UpperChars[i] = c]
    ELSE c

\* String.prototype.toLowerCase
toLowerCase(s) == [i \in 1..Len(s) |-> LowerChar(s[i])]

\* String.prototype.includes
includes(s, t) ==
    \E i \in 0..(Len(s) - Len(t)) : SubSeq(s, i + 1, i + Len(t)) = t

\* String.prototype.replace(c, '') with a one-character string pattern:
\* only the first occurrence is removed
replaceFirst(s, c) ==
    IF \E i \in 1..Len(s) : s[i] = c
    THEN LET k == CHOOSE i \in 1..Len(s) :
                      s[i] = c /\ \A j \in 1..(i - 1) : s[j] # c
         IN  SubSeq(s, 1, k - 1) \o SubSeq(s, k + 1, Len(s))
    ELSE s

startsWith(s, t) == Len(t) <= Len(s) /\ SubSeq(s, 1, Len(t)) = t
endsWith(s, t) == Len(t) <= Len(s) /\ SubSeq(s, Len(s) - Len(t) + 1, Len(s)) = t

RECURSIVE Concat(_)
Concat(ss) == IF ss = <<>> THEN <<>> ELSE Head(ss) \o Concat(Tail(ss))

\* all sequences over S of length at most n
SeqsUpTo(S, n) == UNION {[1..k -> S] : k \in 0..n}

(***************************************************************************)
(* JavaScript values that cross the classifier's result: null, numbers     *)
(* and strings keep their type.                                            *)
(***************************************************************************)
Null == [t |-> "null", n |-> 0, s |-> ""]
Undefined == [t |-> "undefined", n |-> 0, s |-> ""]
Num(k) == [t |-> "number", n |-> k, s |-> ""]
Str(x) == [t |-> "string", n |-> 0, s |-> x]
\* an object, as the sequence of its <<key, value>> members
Obj(members) == [t |-> "object", n |-> 0, s |-> "", o |-> members]

\* the truthiness the operators ||, ?: and if apply to a value
Truthy(v) ==
    CASE v.t = "number" -> v.n # 0
      [] v.t = "string" -> v.s # ""
      [] v.t = "object" -> TRUE
      [] OTHER -> FALSE

(***************************************************************************)
(* Literals of the source.                                                 *)
(***************************************************************************)
s_at == <<"@">>
s_claude == <<"c","l","a","u","d","e">>
s_atclaude == s_at \o s_claude
s_Claude == <<"C","l","a","u","d","e">>
s_CLAUDE == <<"C","L","A","U","D","E">>
s_al == <<"a","l">>
s_bot == <<"b","o","t">>
s_bbotb == <<"[","b","o","t","]">>
s_gitlab == <<"g","i","t","l","a","b","-">>
s_github == <<"g","i","t","h","u","b","-">>
s_service == <<"s","e","r","v","i","c","e">>
s_automation == <<"a","u","t","o","m","a","t","i","o","n">>


(***************************************************************************)
(* Configuration (GitLabActionConfig).  An unset optional string and the   *)
(* empty string are both falsy in the code and both modelled by <<>>.      *)
(***************************************************************************)
TriggerPhrases == {s_atclaude, s_CLAUDE}
AssigneeTriggers == {<<>>, s_claude}
LabelTriggers == {<<>>, s_claude}

Configs ==
    [triggerPhrase : TriggerPhrases,
     assigneeTrigger : AssigneeTriggers,
     labelTrigger : LabelTriggers]

(***************************************************************************)
(* Webhook events (GitLabWebhookEvent and its three refinements).          *)
(***************************************************************************)
TextChunks == {s_at, s_Claude}

\* texts made of at most n chunks
Texts(n) == {Concat(cs) : cs \in SeqsUpTo(TextChunks, n)}

\* the global id of a resource differs from its project-scoped iid
GlobalId(iid) == 100 + iid

Human == [id |-> 1, username |-> s_al, name |-> <<"A","l">>]

BotPrefixes == {<<>>, <<"G","i","t","L","a","b","-">>, s_github}
BotSuffixes == {<<>>, <<"B","o","t">>, s_bbotb, <<"S","e","r","v","i","c","e">>,
                s_automation, <<"b","o","t","s">>}

Users ==
    {[id |-> 1, username |-> pre \o s_al \o suf, name |-> <<"A","l">>] :
        pre \in BotPrefixes, suf \in {<<>>}}
    \cup {[id |-> 1, username |-> s_al \o suf, name |-> <<"A","l">>] :
        suf \in BotSuffixes}
    \cup {[id |-> 1, username |-> s_al, name |-> nm] :
        nm \in {<<>>, <<"A","l"," ","B","O","T">>, <<"b","o","t"," ","A","l">>}}

Absent == [present |-> FALSE, items |-> <<>>]
Present(xs) == [present |-> TRUE, items |-> xs]

AssigneeLists ==
    {Absent, Present(<<[username |-> s_al]>>),
     Present(<<[username |-> s_al], [username |-> s_claude]>>)}
LabelLists ==
    {Absent, Present(<<[title |-> s_al]>>),
     Present(<<[title |-> s_claude], [title |-> s_al]>>)}

NoAttributes ==
    [id |-> 0, iid |-> 0, title |-> <<>>, description |-> <<>>, state |-> "",
     note |-> <<>>, system |-> FALSE, noteable_type |-> "", noteable_id |-> 0]

Event(kind, user, attrs, assignees, labels, issue, mr) ==
    [object_kind |-> kind, user |-> user, project |-> [id |-> 7],
     object_attributes |-> attrs, assignees |-> assignees, labels |-> labels,
     issue |-> issue, merge_request |-> mr]

\* the parent a note event carries: noteable_type and the optional issue /
\* merge_request objects
NoteTargets(iids) ==
    {[noteable_type |-> "Issue", issue |-> Present(<<[id |-> GlobalId(i), iid |-> i]>>),
      merge_request |-> Absent, noteable_id |-> GlobalId(i)] : i \in iids}
    \cup {[noteable_type |-> "MergeRequest", issue |-> Absent,
      merge_request |-> Present(<<[id |-> GlobalId(i), iid |-> i]>>),
      noteable_id |-> GlobalId(i)] : i \in iids}
    \cup {[noteable_type |-> nt, issue |-> Absent, merge_request |-> Absent,
      noteable_id |-> GlobalId(i)] :
        nt \in {"Issue", "MergeRequest", "Commit"}, i \in iids}

NoteEvents(users, bodies, iids) ==
    {Event("note", u,
           [NoAttributes EXCEPT !.id = 55, !.note = b, !.system = sys,
               !.noteable_type = tg.noteable_type, !.noteable_id = tg.noteable_id],
           Absent, Absent, tg.issue, tg.merge_request) :
        u \in users, b \in bodies, sys \in BOOLEAN, tg \in NoteTargets(iids)}

ResourceEvents(kind, states, users, titles, descs, iids) ==
    {Event(kind, u,
           [NoAttributes EXCEPT !.id = GlobalId(i), !.iid = i, !.title = t,
               !.description = d, !.state = st],
           as, ls, Absent, Absent) :
        u \in users, t \in titles, d \in descs, st \in states, i \in iids,
        as \in AssigneeLists, ls \in LabelLists}

OtherEvents(users) ==
    {Event(k, u, NoAttributes, Absent, Absent, Absent, Absent) :
        k \in {"push", "tag_push"}, u \in users}

EventsOf(users, texts, descs, iids) ==
    NoteEvents(users, texts, iids)
    \cup ResourceEvents("issue", {"opened", "closed"}, users, texts, descs, iids)
    \cup ResourceEvents("merge_request", {"opened", "closed", "merged"},
                        users, texts, descs, iids)
    \cup OtherEvents(users)

\* every event content for the plain human user; for the other users the
\* contents with a fixed matching text
Events ==
    EventsOf({Human}, Texts(MaxChunks), Texts(MaxChunks - 1), 1..MaxIid)
    \cup EventsOf(Users, {s_at \o s_Claude}, {<<>>}, {1})


(***************************************************************************)
(* GitLabTriggerValidator.                                                 *)
(***************************************************************************)

\* the regular expressions of isBotUser: an anchored literal, matched
\* case-insensitively (flag i)
botPatterns ==
    <<[anchor |-> "end",   lit |-> s_bot],
      [anchor |-> "end",   lit |-> s_bbotb],
      [anchor |-> "start", lit |-> s_gitlab],
      [anchor |-> "start", lit |-> s_github],
      [anchor |-> "end",   lit |-> s_service],
      [anchor |-> "end",   lit |-> s_automation]>>

\* RegExp.prototype.test for one of the patterns above
test(pattern, text) ==
    IF pattern.anchor = "end"
    THEN endsWith(toLowerCase(text), pattern.lit)
    ELSE startsWith(toLowerCase(text), pattern.lit)

\* mutant: only the username is tested
isBotUser_UsernameOnly(user) ==
    \E i \in 1..Len(botPatterns) : test(botPatterns[i], user.username)

isBotUser(user) ==
    \/ \E i \in 1..Len(botPatterns) : test(botPatterns[i], user.username)
    \/ \E i \in 1..Len(botPatterns) : test(botPatterns[i], user.name)

\* mutant: the text is compared without being lower-cased
containsTriggerPhrase_CaseSensitive(cfg, text) ==
    IF text = <<>> THEN FALSE
    ELSE LET normalizedPhrase == toLowerCase(cfg.triggerPhrase)
         IN  \/ includes(text, normalizedPhrase)
             \/ includes(text, s_at \o replaceFirst(normalizedPhrase, "@"))

containsTriggerPhrase(cfg, text) ==
    IF text = <<>> THEN FALSE
    ELSE LET normalizedText == toLowerCase(text)
             normalizedPhrase == toLowerCase(cfg.triggerPhrase)
         IN  \/ includes(normalizedText, normalizedPhrase)
             \/ includes(normalizedText, s_at \o replaceFirst(normalizedPhrase, "@"))

\* the result object validateTrigger starts from
InitialResult(event) ==
    [shouldTrigger |-> FALSE,
     triggerType |-> Null,
     resourceType |-> Null,
     resourceId |-> Null,
     projectId |-> Num(event.project.id),
     triggeredBy |-> event.user,
     triggerComment |-> Absent]

\* validateNoteEvent past the system-note check
checkNoteBody(cfg, event, result) ==
    LET note == event.object_attributes IN
    IF containsTriggerPhrase(cfg, note.note)
    THEN LET r1 == [result EXCEPT
                       !.shouldTrigger = TRUE,
                       !.triggerType = Str("comment"),
                       !.triggerComment = Present(<<
                           [id |-> note.id, body |-> note.note, author |-> event.user,
                            system |-> note.system,
                            noteable_type |-> note.noteable_type,
                            noteable_id |-> note.noteable_id]>>)]
         IN  IF note.noteable_type = "Issue" /\ event.issue.present
             THEN [r1 EXCEPT !.resourceType = Str("issue"),
                             !.resourceId = Num(event.issue.items[1].iid)]
             ELSE IF note.noteable_type = "MergeRequest" /\ event.merge_request.present
             THEN [r1 EXCEPT !.resourceType = Str("merge_request"),
                             !.resourceId = Num(event.merge_request.items[1].iid)]
             ELSE r1
    ELSE result

\* mutant: system notes are not skipped
validateNoteEvent_NoSystemSkip(cfg, event, result) ==
    checkNoteBody(cfg, event, result)

validateNoteEvent(cfg, event, result) ==
    IF event.object_attributes.system THEN result
    ELSE checkNoteBody(cfg, event, result)

\* config.assigneeTrigger && event.assignees && event.assignees.some(...)
hasAssigneeTrigger(cfg, event) ==
    /\ cfg.assigneeTrigger # <<>>
    /\ event.assignees.present
    /\ \E i \in 1..Len(event.assignees.items) :
          event.assignees.items[i].username = cfg.assigneeTrigger

\* config.labelTrigger && event.labels && event.labels.some(...)
hasLabelTrigger(cfg, event) ==
    /\ cfg.labelTrigger # <<>>
    /\ event.labels.present
    /\ \E i \in 1..Len(event.labels.items) :
          event.labels.items[i].title = cfg.labelTrigger

\* mutant: the phrase is looked for whatever the state is
phraseChecked_AnyState(res) == TRUE

\* the guard of the phrase check
phraseChecked(res) == res.state = "opened"

\* mutant: the description is not searched
hasPhrase_TitleOnly(cfg, res) == containsTriggerPhrase(cfg, res.title)

\* a null description is read as '' (description || ''), and both are <<>>
hasPhrase(cfg, res) ==
    \/ containsTriggerPhrase(cfg, res.title)
    \/ containsTriggerPhrase(cfg, res.description)

\* the four assignments made on a match
Triggered(result, triggerType, resourceType, iid) ==
    [result EXCEPT !.shouldTrigger = TRUE,
                   !.triggerType = Str(triggerType),
                   !.resourceType = Str(resourceType),
                   !.resourceId = Num(iid)]

\* mutant: the label check runs before the assignee check
validateResourceEvent_LabelFirst(cfg, event, result, resourceType) ==
    LET res == event.object_attributes IN
    IF hasLabelTrigger(cfg, event)
    THEN Triggered(result, "label", resourceType, res.iid)
    ELSE IF hasAssigneeTrigger(cfg, event)
    THEN Triggered(result, "assignee", resourceType, res.iid)
    ELSE IF phraseChecked(res) /\ hasPhrase(cfg, res)
    THEN Triggered(result, "comment", resourceType, res.iid)
    ELSE result

\* the body validateIssueEvent and validateMergeRequestEvent share; they
\* differ only in the resourceType they report
validateResourceEvent(cfg, event, result, resourceType) ==
    LET res == event.object_attributes IN
    IF hasAssigneeTrigger(cfg, event)
    THEN Triggered(result, "assignee", resourceType, res.iid)
    ELSE IF hasLabelTrigger(cfg, event)
    THEN Triggered(result, "label", resourceType, res.iid)
    ELSE IF phraseChecked(res) /\ hasPhrase(cfg, res)
    THEN Triggered(result, "comment", resourceType, res.iid)
    ELSE result

validateIssueEvent(cfg, event, result) ==
    validateResourceEvent(cfg, event, result, "issue")

validateMergeRequestEvent(cfg, event, result) ==
    validateResourceEvent(cfg, event, result, "merge_request")

validateTrigger(cfg, event) ==
    LET result == InitialResult(event) IN
    IF isBotUser(event.user) THEN result
    ELSE CASE event.object_kind = "note" -> validateNoteEvent(cfg, event, result)
           [] event.object_kind = "issue" -> validateIssueEvent(cfg, event, result)
           [] event.object_kind = "merge_request" ->
                  validateMergeRequestEvent(cfg, event, result)
           [] OTHER -> result

\* what a call did: returned a value or threw
Return(v) == [threw |-> FALSE, result |-> v]
Throw == [threw |-> TRUE, result |-> Null]

s_direct == <<"d","i","r","e","c","t">>
s_DirectTrigger == <<"D","i","r","e","c","t"," ","T","r","i","g","g","e","r">>

\* mutant: the prompt is searched for the trigger phrase
validateDirectTrigger_InspectsPrompt(cfg, projectId, resourceType, resourceId, prompt, userId) ==
    [shouldTrigger |-> containsTriggerPhrase(cfg, prompt),
     triggerType |-> Str("direct"),
     resourceType |-> resourceType,
     resourceId |-> resourceId,
     projectId |-> projectId,
     triggeredBy |-> IF Truthy(userId)
                     THEN [id |-> userId.n, username |-> s_direct,
                           name |-> s_DirectTrigger]
                     ELSE Null,
     triggerComment |-> Absent]

validateDirectTrigger(cfg, projectId, resourceType, resourceId, prompt, userId) ==
    [shouldTrigger |-> TRUE,
     triggerType |-> Str("direct"),
     resourceType |-> resourceType,
     resourceId |-> resourceId,
     projectId |-> projectId,
     triggeredBy |-> IF Truthy(userId)
                     THEN [id |-> userId.n, username |-> s_direct,
                           name |-> s_DirectTrigger]
                     ELSE Null,
     triggerComment |-> Absent]

(***************************************************************************)
(* JSON text is a sequence of tokens; JSON.parse is a recursive-descent     *)
(* parser over scalars and objects, which is the shape of trigger data.    *)
(***************************************************************************)
Tok(k) == [k |-> k, s |-> "", n |-> 0]
LBrace == Tok("{")
RBrace == Tok("}")
Colon == Tok(":")
Comma == Tok(",")
TNull == Tok("null")
TJunk == Tok("junk")        \* text that is no JSON token
TStr(x) == [k |-> "string", s |-> x, n |-> 0]
TNum(x) == [k |-> "number", s |-> "", n |-> x]

ParseFail == [ok |-> FALSE, val |-> Null, next |-> 0]

RECURSIVE ParseValue(_, _)
RECURSIVE ParseMembers(_, _, _)

\* members of an object from position i on, the opening brace and the
\* members in acc already read; i stands on a key
ParseMembers(toks, i, acc) ==
    IF i + 2 > Len(toks) \/ toks[i].k # "string" \/ toks[i + 1] # Colon
    THEN ParseFail
    ELSE LET v == ParseValue(toks, i + 2) IN
         IF ~v.ok \/ v.next > Len(toks) THEN ParseFail
         ELSE LET acc2 == Append(acc, <<toks[i].s, v.val>>) IN
              IF toks[v.next] = RBrace
              THEN [ok |-> TRUE, val |-> Obj(acc2), next |-> v.next + 1]
              ELSE IF toks[v.next] = Comma
              THEN ParseMembers(toks, v.next + 1, acc2)
              ELSE ParseFail

\* one value from position i on
ParseValue(toks, i) ==
    IF i > Len(toks) THEN ParseFail
    ELSE CASE toks[i] = TNull -> [ok |-> TRUE, val |-> Null, next |-> i + 1]
           [] toks[i].k = "number" -> [ok |-> TRUE, val |-> Num(toks[i].n), next |-> i + 1]
           [] toks[i].k = "string" -> [ok |-> TRUE, val |-> Str(toks[i].s), next |-> i + 1]
           [] toks[i] = LBrace ->
                  IF i + 1 <= Len(toks) /\ toks[i + 1] = RBrace
                  THEN [ok |-> TRUE, val |-> Obj(<<>>), next |-> i + 2]
                  ELSE ParseMembers(toks, i + 1, <<>>)
           [] OTHER -> ParseFail

\* JSON.parse: the whole text must be one value; otherwise it throws
JSONparse(toks) ==
    LET v == ParseValue(toks, 1) IN
    IF v.ok /\ v.next = Len(toks) + 1 THEN Return(v.val) ELSE Throw

RECURSIVE stringifyMembers(_)
RECURSIVE JSONstringify(_)

stringifyMembers(ms) ==
    IF ms = <<>> THEN <<>>
    ELSE <<TStr(ms[1][1]), Colon>> \o JSONstringify(ms[1][2])
         \o (IF Len(ms) > 1 THEN <<Comma>> ELSE <<>>)
         \o stringifyMembers(Tail(ms))

\* JSON.stringify
JSONstringify(v) ==
    CASE v.t = "null" -> <<TNull>>
      [] v.t = "number" -> <<TNum(v.n)>>
      [] v.t = "string" -> <<TStr(v.s)>>
      [] v.t = "object" -> <<LBrace>> \o stringifyMembers(v.o) \o <<RBrace>>
      [] OTHER -> <<>>

\* property read data.key; the last member of that name wins; a read on
\* null or undefined throws a TypeError
HasKey(v, key) == v.t = "object" /\ \E i \in 1..Len(v.o) : v.o[i][1] = key
CanRead(v) == v.t \notin {"null", "undefined"}
Get(v, key) ==
    IF HasKey(v, key)
    THEN v.o[CHOOSE i \in 1..Len(v.o) :
                 v.o[i][1] = key /\ \A j \in (i + 1)..Len(v.o) : v.o[j][1] # key][2]
    ELSE Undefined

AllNullResult ==
    [shouldTrigger |-> FALSE,
     triggerType |-> Null,
     resourceType |-> Null,
     resourceId |-> Null,
     projectId |-> Null,
     triggeredBy |-> Null,
     triggerComment |-> Absent]

\* the try block of validatePipelineTrigger
parseTriggerData(triggerData) ==
    LET parsed == JSONparse(triggerData) IN
    IF parsed.threw THEN Throw
    ELSE LET data == parsed.result IN
         IF ~CanRead(data) THEN Throw
         ELSE Return(
              [shouldTrigger |-> TRUE,
               triggerType |-> IF Truthy(Get(data, "triggerType"))
                               THEN Get(data, "triggerType") ELSE Str("direct"),
               resourceType |-> Get(data, "resourceType"),
               resourceId |-> Get(data, "resourceId"),
               projectId |-> Get(data, "projectId"),
               triggeredBy |-> IF Truthy(Get(data, "triggeredBy"))
                               THEN Get(data, "triggeredBy") ELSE Null,
               triggerComment |-> Absent])

\* mutant: the parse error is not caught
validatePipelineTrigger_NoCatch(triggerData) == parseTriggerData(triggerData)

validatePipelineTrigger(triggerData) ==
    LET attempt == parseTriggerData(triggerData) IN
    IF attempt.threw THEN Return(AllNullResult) ELSE attempt

(***************************************************************************)
(* Inputs of the direct and the pipeline trigger.                          *)
(***************************************************************************)
DirectArgs ==
    [projectId : {Num(i) : i \in 0..MaxIid},
     resourceType : {Str("issue"), Str("merge_request"), Str("commit")},
     resourceId : {Num(i) : i \in 0..MaxIid} \cup {Null},
     prompt : Texts(MaxChunks),
     userId : {Undefined, Num(0), Num(1)}]

\* members a trigger-data object may carry, in the order handleWebhook
\* writes them; <<>> leaves the member out
BlobMembers ==
    [triggerType : {<<>>, <<<<"triggerType", Str("comment")>>>>,
                          <<<<"triggerType", Null>>>>},
     resourceType : {<<>>, <<<<"resourceType", Str("issue")>>>>,
                           <<<<"resourceType", Str("merge_request")>>>>},
     resourceId : {<<>>} \cup {<<<<"resourceId", Num(i)>>>> : i \in 1..MaxIid},
     projectId : {<<>>, <<<<"projectId", Num(7)>>>>},
     triggeredBy : {<<>>, <<<<"triggeredBy", Null>>>>,
                          <<<<"triggeredBy", Obj(<<<<"id", Num(1)>>>>)>>>>}]

BlobValues ==
    {Obj(m.triggerType \o m.resourceType \o m.resourceId \o m.projectId
         \o m.triggeredBy) : m \in BlobMembers}
    \cup {Null, Num(5), Str("issue")}

WellFormedBlobs == {JSONstringify(v) : v \in BlobValues}

\* what truncation, a stray word or a dangling comma make of trigger data
MalformedBlobs ==
    UNION {{SubSeq(b, 1, k) : k \in 0..(Len(b) - 1)} : b \in WellFormedBlobs}
    \cup {b \o <<TJunk>> : b \in WellFormedBlobs}
    \cup {<<TJunk>>, <<LBrace, TStr("projectId"), RBrace>>,
          <<LBrace, TStr("projectId"), Colon, TNum(7), Comma, RBrace>>,
          <<LBrace, TStr("projectId"), Colon, TJunk, RBrace>>,
          <<LBrace, TNum(7), Colon, TNum(7), RBrace>>}

TriggerBlobs == WellFormedBlobs \cup MalformedBlobs

(***************************************************************************)
(* Tool-permission resolution (create-prompt).  A comma-joined string is   *)
(* the sequence of its names and commas; the empty name adds no text.      *)
(***************************************************************************)
BASE_ALLOWED_TOOLS ==
    <<"Edit", "MultiEdit", "Glob", "Grep", "LS", "Read", "Write",
      "mcp__gitlab_file_ops__commit_files",
      "mcp__gitlab_file_ops__delete_files",
      "mcp__gitlab_file_ops__update_claude_comment">>
DISALLOWED_TOOLS == <<"WebSearch", "WebFetch">>

NameText(name) == IF name = "" THEN <<>> ELSE <<name>>

\* Array.prototype.join(",")
RECURSIVE join(_)
join(names) ==
    IF names = <<>> THEN <<>>
    ELSE IF Len(names) = 1 THEN NameText(names[1])
    ELSE NameText(names[1]) \o <<",">> \o join(Tail(names))

\* Array.prototype.filter(tool => !allowedTools.includes(tool))
RECURSIVE withoutAllowed(_, _)
withoutAllowed(tools, allowedTools) ==
    IF tools = <<>> THEN <<>>
    ELSE IF \E i \in 1..Len(allowedTools) : allowedTools[i] = tools[1]
    THEN withoutAllowed(Tail(tools), allowedTools)
    ELSE <<tools[1]>> \o withoutAllowed(Tail(tools), allowedTools)

\* mutant: the base deny-list is not filtered by the allowed tools
removeAllowed_Keep(disallowedTools, allowedTools) == disallowedTools

\* lines 36-40: the filter is applied when allowedTools is a non-empty array
removeAllowed(disallowedTools, allowedTools) ==
    IF allowedTools.present /\ Len(allowedTools.items) > 0
    THEN withoutAllowed(disallowedTools, allowedTools.items)
    ELSE disallowedTools

buildDisallowedToolsString(customDisallowedTools, allowedTools) ==
    LET disallowedTools == removeAllowed(DISALLOWED_TOOLS, allowedTools)
        allDisallowedTools == join(disallowedTools)
    IN  IF customDisallowedTools.present /\ Len(customDisallowedTools.items) > 0
        THEN IF allDisallowedTools # <<>>
             THEN allDisallowedTools \o <<",">> \o join(customDisallowedTools.items)
             ELSE join(customDisallowedTools.items)
        ELSE allDisallowedTools

\* the tool names a caller may pass; '' is what split(',') makes of an empty
\* variable
ToolNames == {"WebSearch", "WebFetch", "Bash", ""}
ToolLists == {Absent} \cup {Present(l) : l \in SeqsUpTo(ToolNames, MaxTools)}

(***************************************************************************)
(* State: the validator's configuration, fixed at construction, and the    *)
(* call made on it with its arguments and what it returned.  The validator *)
(* keeps no state between calls, so a behaviour is one construction        *)
(* followed by one call.                                                   *)
(***************************************************************************)
Idle ==
    /\ world = [kind |-> "none"]
    /\ pc = "idle"
    /\ requests = <<>>
    /\ locals = [kind |-> "none"]
    /\ output = [kind |-> "none"]

Init ==
    /\ config \in Configs
    /\ call = [op |-> "none"]
    /\ Idle

ValidateTrigger ==
    /\ call.op = "none"
    /\ \E event \in Events :
          call' = [op |-> "validateTrigger", event |-> event, threw |-> FALSE,
                   result |-> validateTrigger(config, event)]
    /\ UNCHANGED <<config, run>>

ValidateDirectTrigger ==
    /\ call.op = "none"
    /\ \E a \in DirectArgs :
          call' = [op |-> "validateDirectTrigger", args |-> a, threw |-> FALSE,
                   result |-> validateDirectTrigger(config, a.projectId,
                                  a.resourceType, a.resourceId, a.prompt, a.userId)]
    /\ UNCHANGED <<config, run>>

ValidatePipelineTrigger ==
    /\ call.op = "none"
    /\ \E triggerData \in TriggerBlobs :
          LET out == validatePipelineTrigger(triggerData) IN
          call' = [op |-> "validatePipelineTrigger", triggerData |-> triggerData,
                   threw |-> out.threw, result |-> out.result]
    /\ UNCHANGED <<config, run>>

BuildDisallowedTools ==
    /\ call.op = "none"
    /\ \E custom \in ToolLists, allowed \in ToolLists :
          call' = [op |-> "buildDisallowedToolsString",
                   customDisallowedTools |-> custom, allowedTools |-> allowed,
                   threw |-> FALSE,
                   result |-> buildDisallowedToolsString(custom, allowed)]
    /\ UNCHANGED <<config, run>>

Next ==
    \/ ValidateTrigger
    \/ ValidateDirectTrigger
    \/ ValidatePipelineTrigger
    \/ BuildDisallowedTools

Spec == Init /\ [][Next]_vars

(***************************************************************************)
(* Properties of validateTrigger.                                          *)
(***************************************************************************)
Validated == call.op = "validateTrigger"

\* the text contains the phrase when letter case is ignored
ContainsIgnoringCase(text, phrase) ==
    \E i \in 0..(Len(text) - Len(phrase)) :
        \A j \in 1..Len(phrase) : LowerChar(text[i + j]) = LowerChar(phrase[j])

EndsIgnoringCase(text, lit) ==
    /\ Len(lit) <= Len(text)
    /\ \A j \in 1..Len(lit) :
          LowerChar(text[Len(text) - Len(lit) + j]) = LowerChar(lit[j])

StartsIgnoringCase(text, lit) ==
    /\ Len(lit) <= Len(text)
    /\ \A j \in 1..Len(lit) : LowerChar(text[j]) = LowerChar(lit[j])

\* the bot patterns as the documentation lists them
BotText(text) ==
    \/ \E lit \in {s_bot, s_bbotb, s_service, s_automation} : EndsIgnoringCase(text, lit)
    \/ \E lit \in {s_gitlab, s_github} : StartsIgnoringCase(text, lit)

BotActor(user) == BotText(user.username) \/ BotText(user.name)

AssigneeConfigured(event) ==
    /\ config.assigneeTrigger # <<>>
    /\ event.assignees.present
    /\ \E i \in 1..Len(event.assignees.items) :
          event.assignees.items[i].username = config.assigneeTrigger

LabelConfigured(event) ==
    /\ config.labelTrigger # <<>>
    /\ event.labels.present
    /\ \E i \in 1..Len(event.labels.items) :
          event.labels.items[i].title = config.labelTrigger

PhraseInTitleOrDescription(event) ==
    \/ ContainsIgnoringCase(event.object_attributes.title, config.triggerPhrase)
    \/ ContainsIgnoringCase(event.object_attributes.description, config.triggerPhrase)

ResourceKind(event) == event.object_kind \in {"issue", "merge_request"}

\* C1: an event whose acting user's username or name matches a bot pattern
\* never triggers: shouldTrigger is false and triggerType, resourceType and
\* resourceId are null, whatever the rest of the event is.
C1_BotNeverTriggers ==
    (Validated /\ BotActor(call.event.user)) =>
        /\ call.result.shouldTrigger = FALSE
        /\ call.result.triggerType = Null
        /\ call.result.resourceType = Null
        /\ call.result.resourceId = Null

\* a bot recognised by its display name only, in upper case, on an event that
\* an assignee match would otherwise trigger
C1_Witness ==
    /\ Validated
    /\ ~BotText(call.event.user.username)
    /\ BotText(call.event.user.name)
    /\ call.event.object_kind = "merge_request"
    /\ AssigneeConfigured(call.event)
    /\ call.result.shouldTrigger = FALSE

\* C2: a note event whose note is a system note never triggers, even with
\* the trigger phrase in its body, on an issue or on a merge request.
C2_SystemNoteNeverTriggers ==
    (Validated /\ call.event.object_kind = "note"
        /\ call.event.object_attributes.system) =>
        call.result.shouldTrigger = FALSE

C2_Witness ==
    /\ Validated
    /\ call.event.object_kind = "note"
    /\ call.event.object_attributes.system
    /\ ~BotActor(call.event.user)
    /\ call.event.merge_request.present
    /\ ContainsIgnoringCase(call.event.object_attributes.note, config.triggerPhrase)
    /\ call.result.shouldTrigger = FALSE

C4_AssigneeThenLabelThenPhrase ==
    (Validated /\ ResourceKind(call.event) /\ ~BotActor(call.event.user)) =>
        /\ AssigneeConfigured(call.event) =>
              call.result.triggerType = Str("assignee")
        /\ (~AssigneeConfigured(call.event) /\ LabelConfigured(call.event)) =>
              call.result.triggerType = Str("label")

\* all three checks match at once
C4_Witness ==
    /\ Validated
    /\ call.event.object_kind = "issue"
    /\ AssigneeConfigured(call.event)
    /\ LabelConfigured(call.event)
    /\ call.event.object_attributes.state = "opened"
    /\ PhraseInTitleOrDescription(call.event)
    /\ call.result.triggerType = Str("assignee")

\* C5: an opened issue (merge request) of a non-bot user with the phrase in
\* its title or description and no matching assignee or label triggers with
\* triggerType 'comment', resourceType 'issue' ('merge_request') and
\* resourceId the iid of the resource.
C5_OpenedPhraseTriggers ==
    (Validated /\ ResourceKind(call.event) /\ ~BotActor(call.event.user)
        /\ call.event.object_attributes.state = "opened"
        /\ PhraseInTitleOrDescription(call.event)
        /\ ~AssigneeConfigured(call.event) /\ ~LabelConfigured(call.event)) =>
        /\ call.result.shouldTrigger = TRUE
        /\ call.result.triggerType = Str("comment")
        /\ call.result.resourceType = Str(call.event.object_kind)
        /\ call.result.resourceId = Num(call.event.object_attributes.iid)

\* the phrase stands in the description only
C5_Witness ==
    /\ Validated
    /\ call.event.object_kind = "merge_request"
    /\ call.event.object_attributes.state = "opened"
    /\ ~ContainsIgnoringCase(call.event.object_attributes.title, config.triggerPhrase)
    /\ ContainsIgnoringCase(call.event.object_attributes.description, config.triggerPhrase)
    /\ call.event.object_attributes.iid = MaxIid
    /\ call.result.triggerType = Str("comment")
    /\ call.result.resourceType = Str("merge_request")
    /\ call.result.resourceId = Num(MaxIid)

\* C6: an issue or merge-request event whose state is not 'opened' and that
\* matches neither the assignee nor the label trigger does not trigger, even
\* with the phrase in its title or description.
C6_ClosedPhraseIgnored ==
    (Validated /\ ResourceKind(call.event)
        /\ call.event.object_attributes.state # "opened"
        /\ ~AssigneeConfigured(call.event) /\ ~LabelConfigured(call.event)) =>
        call.result.shouldTrigger = FALSE

C6_Witness ==
    /\ Validated
    /\ call.event.object_kind = "merge_request"
    /\ call.event.object_attributes.state = "merged"
    /\ ~BotActor(call.event.user)
    /\ PhraseInTitleOrDescription(call.event)
    /\ call.result.shouldTrigger = FALSE

\* the iid of the issue or merge request the event is about; 0 when the event
\* carries none
TargetIid(event, resourceType) ==
    CASE event.object_kind \in {"issue", "merge_request"} ->
             IF resourceType = Str(event.object_kind)
             THEN event.object_attributes.iid ELSE 0
      [] event.object_kind = "note" /\ resourceType = Str("issue")
             /\ event.issue.present -> event.issue.items[1].iid
      [] event.object_kind = "note" /\ resourceType = Str("merge_request")
             /\ event.merge_request.present -> event.merge_request.items[1].iid
      [] OTHER -> 0

\* C7: every result with shouldTrigger = true names its target: resourceType
\* is 'issue' or 'merge_request' and resourceId is the iid of that resource
\* as the event carries it, never null.
C7_TriggerNamesTarget ==
    (Validated /\ call.result.shouldTrigger) =>
        /\ call.result.resourceType \in {Str("issue"), Str("merge_request")}
        /\ TargetIid(call.event, call.result.resourceType) # 0
        /\ call.result.resourceId =
              Num(TargetIid(call.event, call.result.resourceType))


(***************************************************************************)
(* Properties of the pipeline and the direct trigger.                      *)
(***************************************************************************)
\* C8: on trigger data that is not parseable JSON validatePipelineTrigger
\* returns normally, with shouldTrigger false and triggerType, resourceType,
\* resourceId, projectId and triggeredBy all null.
C8_UnparseableDegrades ==
    (call.op = "validatePipelineTrigger" /\ JSONparse(call.triggerData).threw) =>
        /\ ~call.threw
        /\ call.result.shouldTrigger = FALSE
        /\ call.result.triggerType = Null
        /\ call.result.resourceType = Null
        /\ call.result.resourceId = Null
        /\ call.result.projectId = Null
        /\ call.result.triggeredBy = Null

\* trigger data cut off inside an object that names a resource
C8_Witness ==
    /\ call.op = "validatePipelineTrigger"
    /\ Len(call.triggerData) > 4
    /\ call.triggerData[1] = LBrace
    /\ call.triggerData[Len(call.triggerData)] # RBrace
    /\ \E i \in 1..Len(call.triggerData) : call.triggerData[i] = TStr("resourceType")
    /\ JSONparse(call.triggerData).threw
    /\ ~call.threw
    /\ call.result = AllNullResult

\* C9: validateDirectTrigger always triggers with triggerType 'direct' and
\* hands back resourceType, resourceId and projectId as given; the result is
\* built from the arguments alone, whatever the prompt and the configured
\* triggers are.
C9_DirectAlwaysTriggers ==
    call.op = "validateDirectTrigger" =>
        /\ ~call.threw
        /\ call.result.shouldTrigger = TRUE
        /\ call.result.triggerType = Str("direct")
        /\ call.result.resourceType = call.args.resourceType
        /\ call.result.resourceId = call.args.resourceId
        /\ call.result.projectId = call.args.projectId

\* a prompt without the trigger phrase, a resource type the classifier never
\* reports and a null resource id
C9_Witness ==
    /\ call.op = "validateDirectTrigger"
    /\ ~ContainsIgnoringCase(call.args.prompt, config.triggerPhrase)
    /\ call.args.resourceType = Str("commit")
    /\ call.args.resourceId = Null
    /\ call.result.shouldTrigger = TRUE
    /\ call.result.resourceType = Str("commit")
    /\ call.result.resourceId = Null

(***************************************************************************)
(* Properties of the tool-permission resolution.                           *)
(***************************************************************************)
\* String.prototype.split(",") of a comma-joined string, as the set of the
\* entries it yields
RECURSIVE Entries(_, _)
Entries(text, current) ==
    IF text = <<>> THEN {current}
    ELSE IF Head(text) = "," THEN {current} \cup Entries(Tail(text), "")
    ELSE Entries(Tail(text), Head(text))

ResolvedDenyList == Entries(call.result, "")

Listed(tool, list) ==
    list.present /\ \E i \in 1..Len(list.items) : list.items[i] = tool

BaseDenied == {DISALLOWED_TOOLS[i] : i \in 1..Len(DISALLOWED_TOOLS)}

\* C10 as claimed: a base-denied tool the caller allows is not in the
\* resolved deny-list, and one the caller does not allow is in it.
C10_AllowAlwaysWins ==
    call.op = "buildDisallowedToolsString" =>
        \A tool \in BaseDenied :
            IF Listed(tool, call.allowedTools)
            THEN tool \notin ResolvedDenyList
            ELSE tool \in ResolvedDenyList

\* C10 as amended: a base-denied tool the caller allows is in the resolved
\* deny-list only if the caller also lists it in disallowedTools; one the
\* caller does not allow is always in it.
C10_AllowWinsOverBase ==
    call.op = "buildDisallowedToolsString" =>
        \A tool \in BaseDenied :
            IF Listed(tool, call.allowedTools)
            THEN tool \in ResolvedDenyList <=>
                     Listed(tool, call.customDisallowedTools)
            ELSE tool \in ResolvedDenyList

\* the caller allows WebFetch only and denies one tool of its own
C10_Witness ==
    /\ call.op = "buildDisallowedToolsString"
    /\ call.allowedTools = Present(<<"WebFetch">>)
    /\ call.customDisallowedTools = Present(<<"Bash">>)
    /\ ResolvedDenyList = {"WebSearch", "Bash"}

(***************************************************************************)
(* GitLabDataFetcher (src/gitlab/data/formatter.ts): the context of one    *)
(* trigger, read through the GitLab API client.  The world names the       *)
(* client calls that answer with an error, the change list of the merge    *)
(* request and the files whose content cannot be read.                     *)
(***************************************************************************)
maxFiles == 20

p_nodemodules == <<"n","o","d","e","_","m","o","d","u","l","e","s","/">>
p_dist == <<"d","i","s","t","/">>
p_packagelock == <<"p","a","c","k","a","g","e","-","l","o","c","k">>
p_yarn == <<"y","a","r","n">>
p_Cargo == <<"C","a","r","g","o">>
p_a == <<"a">>
p_ts == <<".","t","s">>
p_lock == <<".","l","o","c","k">>
p_json == <<".","j","s","o","n">>
p_PNG == <<".","P","N","G">>
p_main == <<"m","a","i","n">>
p_feature == <<"f","e","a","t","u","r","e">>

\* the regular expressions of isRelevantFile: alternatives of literals,
\* anchored at the end ($) or not anchored, the first one with flag i
excludePatterns ==
    <<[anchor |-> "end", flags |-> "i",
       alts |-> {<<".","p","n","g">>,
                   <<".","j","p","g">>,
                   <<".","j","p","e","g">>,
                   <<".","g","i","f">>,
                   <<".","i","c","o">>,
                   <<".","s","v","g">>,
                   <<".","p","d","f">>,
                   <<".","z","i","p">>,
                   <<".","t","a","r">>,
                   <<".","g","z">>,
                   <<".","e","x","e">>,
                   <<".","b","i","n">>,
                   <<".","d","l","l">>}],
      [anchor |-> "end", flags |-> "", alts |-> {<<"p","a","c","k","a","g","e","-","l","o","c","k",".","j","s","o","n">>}],
      [anchor |-> "end", flags |-> "", alts |-> {<<"y","a","r","n",".","l","o","c","k">>}],
      [anchor |-> "end", flags |-> "", alts |-> {<<"p","n","p","m","-","l","o","c","k",".","y","a","m","l">>}],
      [anchor |-> "end", flags |-> "", alts |-> {<<"G","e","m","f","i","l","e",".","l","o","c","k">>}],
      [anchor |-> "end", flags |-> "", alts |-> {<<"c","o","m","p","o","s","e","r",".","l","o","c","k">>}],
      [anchor |-> "end", flags |-> "", alts |-> {<<".","m","i","n",".","j","s">>, <<".","m","i","n",".","c","s","s">>}],
      [anchor |-> "any", flags |-> "", alts |-> {<<"n","o","d","e","_","m","o","d","u","l","e","s","/">>}],
      [anchor |-> "any", flags |-> "", alts |-> {<<".","g","i","t","/">>}],
      [anchor |-> "any", flags |-> "", alts |-> {<<"b","u","i","l","d","/">>}],
      [anchor |-> "any", flags |-> "", alts |-> {<<"d","i","s","t","/">>}]>>

\* RegExp.prototype.test for one of the patterns above
testPath(pattern, filePath) ==
    LET text == IF pattern.flags = "i" THEN toLowerCase(filePath) ELSE filePath
    IN  \E a \in pattern.alts :
            IF pattern.anchor = "end" THEN endsWith(text, a) ELSE includes(text, a)

isRelevantFile(filePath) ==
    ~\E i \in 1..Len(excludePatterns) : testPath(excludePatterns[i], filePath)

\* Array.prototype.slice(from, to)
slice(s, from, to) == SubSeq(s, from + 1, IF to < Len(s) THEN to ELSE Len(s))

\* diffs.filter(...).slice(0, maxFiles)
relevantDiffs(diffs) ==
    slice(SelectSeq(diffs, LAMBDA diff :
                        ~diff.deleted_file /\ isRelevantFile(diff.new_path)),
          0, maxFiles)

\* one request to a collaborator: the call, the id of the project or
\* resource it names, and the path and ref where it has them
Request(name, id) == [call |-> name, id |-> id, path |-> <<>>, ref |-> <<>>]
FileRequest(projectId, path, branch) ==
    [call |-> "getFile", id |-> projectId, path |-> path, ref |-> branch]
File(path, branch) == [file_path |-> path, ref |-> branch]

NoFiles(projectId) ==
    [projectId |-> projectId, threw |-> FALSE, files |-> <<>>, requests |-> <<>>,
     warnings |-> <<>>]

\* mutant: the error of getFile leaves the loop
fetchFile_Rethrow(w, acc, diff, branch) ==
    LET asked == [acc EXCEPT !.requests =
                      Append(@, FileRequest(acc.projectId, diff.new_path, branch))]
    IN  IF diff.new_path \in w.unreadable
        THEN [asked EXCEPT !.threw = TRUE]
        ELSE [asked EXCEPT !.files = Append(@, File(diff.new_path, branch))]

\* mutant: the file is put in front of the files fetched before it
fetchFile_Unshift(w, acc, diff, branch) ==
    LET asked == [acc EXCEPT !.requests =
                      Append(@, FileRequest(acc.projectId, diff.new_path, branch))]
    IN  IF diff.new_path \in w.unreadable
        THEN [asked EXCEPT !.warnings = Append(@, diff.new_path)]
        ELSE [asked EXCEPT !.files = <<File(diff.new_path, branch)>> \o @]

\* one turn of the loop of fetchModifiedFiles: getFile and push, or the
\* catch block that only warns
fetchFile(w, acc, diff, branch) ==
    LET asked == [acc EXCEPT !.requests =
                      Append(@, FileRequest(acc.projectId, diff.new_path, branch))]
    IN  IF diff.new_path \in w.unreadable
        THEN [asked EXCEPT !.warnings = Append(@, diff.new_path)]
        ELSE [asked EXCEPT !.files = Append(@, File(diff.new_path, branch))]

RECURSIVE fetchEach(_, _, _, _)
\* for (const diff of relevantDiffs); an error that escapes a turn ends it
fetchEach(w, acc, diffs, branch) ==
    IF diffs = <<>> \/ acc.threw THEN acc
    ELSE fetchEach(w, fetchFile(w, acc, Head(diffs), branch), Tail(diffs), branch)

fetchModifiedFiles(w, projectId, diffs, branch) ==
    fetchEach(w, NoFiles(projectId), relevantDiffs(diffs), branch)

\* the two guards of fetchFullContext
fetchesIssue(triggerResult) ==
    triggerResult.resourceType = Str("issue") /\ Truthy(triggerResult.resourceId)

fetchesMergeRequest(triggerResult) ==
    /\ ~fetchesIssue(triggerResult)
    /\ triggerResult.resourceType = Str("merge_request")
    /\ Truthy(triggerResult.resourceId)

\* the client calls of fetchFullContext that are awaited one after the
\* other, the file reads excepted
contextCalls(triggerResult) ==
    <<"getProject">> \o
    (IF fetchesIssue(triggerResult) THEN <<"getIssue", "getIssueNotes">>
     ELSE IF fetchesMergeRequest(triggerResult)
     THEN <<"getMergeRequest", "getMergeRequestNotes",
            "getMergeRequestCommits", "getMergeRequestChanges">>
     ELSE <<>>)

\* fetchFullContext: the first failing client call throws; the result
\* carries the requests issued and the warnings logged on the way
fetchFullContext(w, projectId, triggerResult) ==
    LET calls == contextCalls(triggerResult)
        sent(i) == Request(calls[i], IF calls[i] = "getProject" THEN projectId
                                     ELSE triggerResult.resourceId)
        failed == {i \in 1..Len(calls) : calls[i] \in w.failing}
        isIssue == fetchesIssue(triggerResult)
        isMergeRequest == fetchesMergeRequest(triggerResult)
    IN  IF failed # {}
        THEN LET first == CHOOSE i \in failed : \A j \in failed : i <= j
             IN  [threw |-> TRUE, result |-> Null,
                  requests |-> [i \in 1..first |-> sent(i)],
                  warnings |-> <<>>]
        ELSE LET fetched == IF isMergeRequest
                            THEN fetchModifiedFiles(w, projectId, w.changes,
                                                    w.mergeRequest.source_branch)
                            ELSE NoFiles(projectId)
             IN  [threw |-> fetched.threw,
                  result |->
                      IF fetched.threw THEN Null
                      ELSE [project |-> w.project,
                            issue |-> IF isIssue
                                      THEN [t |-> "object", iid |-> triggerResult.resourceId.n]
                                      ELSE Undefined,
                            mergeRequest |-> IF isMergeRequest
                                             THEN [w.mergeRequest EXCEPT
                                                     !.iid = triggerResult.resourceId.n]
                                             ELSE Undefined,
                            notes |-> IF isIssue \/ isMergeRequest THEN w.notes ELSE <<>>,
                            triggerResult |-> triggerResult,
                            files |-> fetched.files,
                            commits |-> IF isMergeRequest THEN w.commits ELSE <<>>,
                            diffs |-> IF isMergeRequest THEN w.changes ELSE <<>>],
                  requests |-> [i \in 1..Len(calls) |-> sent(i)]
                               \o fetched.requests,
                  warnings |-> fetched.warnings]

(***************************************************************************)
(* The worlds and trigger results a context is fetched for.  A change      *)
(* list is one probe diff before or after a run of numbered source files,  *)
(* long enough to pass the limit of maxFiles.                              *)
(***************************************************************************)
MaxFillers == 21    \* a change list has at most MaxFillers numbered files

Digits == <<"0","1","2","3","4","5","6","7","8","9">>
Filler(i) == <<"f", Digits[(i \div 10) + 1], Digits[(i % 10) + 1]>> \o p_ts

Diff(path, deleted) == [new_path |-> path, deleted_file |-> deleted]
Fillers(k) == [i \in 1..k |-> Diff(Filler(i), FALSE)]

ProbePaths ==
    {dir \o name \o ext : dir \in {<<>>, p_nodemodules, p_dist},
                          name \in {p_a, p_Cargo, p_packagelock, p_yarn},
                          ext \in {p_ts, p_lock, p_json, p_PNG}}

ChangeLists ==
    {<<Diff(path, deleted)>> \o Fillers(k) :
         path \in ProbePaths, deleted \in BOOLEAN, k \in 0..MaxFillers}
    \cup {Fillers(k) \o <<Diff(path, deleted)>> :
         path \in ProbePaths, deleted \in BOOLEAN, k \in 0..MaxFillers}

ClientCalls ==
    {"getProject", "getIssue", "getIssueNotes", "getMergeRequest",
     "getMergeRequestNotes", "getMergeRequestCommits", "getMergeRequestChanges"}

World(changes, unreadable, failing, state) ==
    [kind |-> "gitlab",
     project |-> [id |-> 7],
     mergeRequest |-> [t |-> "object", iid |-> 0, state |-> state,
                       source_branch |-> p_feature],
     notes |-> <<[id |-> 12], [id |-> 11]>>,
     commits |-> <<[id |-> 1]>>,
     changes |-> changes,
     unreadable |-> unreadable,
     failing |-> failing]

\* every client call answers; the change list and the unreadable files vary
ChangeWorlds ==
    {World(changes, unreadable, {}, "opened") :
         changes \in ChangeLists,
         unreadable \in SUBSET {Filler(1), Filler(maxFiles), p_a \o p_ts}}

\* one short change list; at most one client call answers with an error
FailureWorlds ==
    {World(<<Diff(p_a \o p_ts, FALSE), Diff(Filler(1), FALSE)>>, unreadable, failing, "opened") :
         unreadable \in {{}, {Filler(1)}},
         failing \in {{}} \cup {{c} : c \in ClientCalls}}

TriggerFor(resourceType, resourceId) ==
    [AllNullResult EXCEPT !.shouldTrigger = TRUE,
                          !.triggerType = Str("comment"),
                          !.resourceType = resourceType,
                          !.resourceId = resourceId,
                          !.projectId = Num(7)]

FetchTriggerResults ==
    {TriggerFor(resourceType, resourceId) :
         resourceType \in {Null, Str("issue"), Str("merge_request"), Str("commit")},
         resourceId \in {Null} \cup {Num(i) : i \in 0..MaxIid}}

DefaultConfig ==
    [triggerPhrase |-> s_atclaude, assigneeTrigger |-> <<>>, labelTrigger |-> s_claude]

InitFetch ==
    /\ config = DefaultConfig
    /\ call = [op |-> "none"]
    /\ \/ /\ world \in ChangeWorlds
          /\ locals = [kind |-> "fetch",
                       triggerResult |-> TriggerFor(Str("merge_request"), Num(1))]
       \/ /\ world \in FailureWorlds
          /\ locals \in {[kind |-> "fetch", triggerResult |-> tr] :
                             tr \in FetchTriggerResults}
    /\ pc = "fetch"
    /\ requests = <<>>
    /\ output = [kind |-> "none"]

FetchFullContext ==
    /\ pc = "fetch"
    /\ LET r == fetchFullContext(world, locals.triggerResult.projectId,
                                locals.triggerResult) IN
          /\ requests' = r.requests
          /\ output' = [kind |-> "fetch", threw |-> r.threw, result |-> r.result,
                        warnings |-> r.warnings]
    /\ pc' = "done"
    /\ UNCHANGED <<config, call, world, locals>>

NextFetch == FetchFullContext

SpecFetch == InitFetch /\ [][NextFetch]_vars

(***************************************************************************)
(* Properties of fetchFullContext.                                         *)
(***************************************************************************)
Fetched == output.kind = "fetch"
FileRequests == SelectSeq(requests, LAMBDA r : r.call = "getFile")
DeletedPaths ==
    {world.changes[i].new_path :
         i \in {j \in 1..Len(world.changes) : world.changes[j].deleted_file}}
s_packagelockjson == p_packagelock \o p_json

NeverFetched(path) ==
    \/ path \in DeletedPaths
    \/ endsWith(path, p_lock)
    \/ endsWith(path, s_packagelockjson)
    \/ includes(path, p_nodemodules)

\* C11: the file contents requested and returned for a merge-request change
\* list are at most 20 and include no deleted file and no path that ends in
\* '.lock', ends in 'package-lock.json' or contains 'node_modules/'.
C11_FetchListBoundedAndFiltered ==
    Fetched =>
        /\ Len(FileRequests) <= 20
        /\ \A i \in 1..Len(FileRequests) : ~NeverFetched(FileRequests[i].path)
        /\ ~output.threw =>
              /\ Len(output.result.files) <= 20
              /\ \A i \in 1..Len(output.result.files) :
                     ~NeverFetched(output.result.files[i].file_path)

\* C12: when the content of a changed file cannot be read, fetchFullContext
\* for the merge request still returns: the unreadable file is left out of
\* Context.files, every requested file that could be read is in it, and
\* nothing is thrown.
C12_FileFailureOmitsOnlyThatFile ==
    (Fetched /\ fetchesMergeRequest(locals.triggerResult) /\ world.failing = {}) =>
        /\ ~output.threw
        /\ \A i \in 1..Len(FileRequests) :
               LET path == FileRequests[i].path
                   returned == \E k \in 1..Len(output.result.files) :
                                   output.result.files[k].file_path = path
               IN  returned <=> path \notin world.unreadable

\* the first selected file is unreadable and the files after it are returned
C12_Witness ==
    /\ Fetched
    /\ ~output.threw
    /\ Len(FileRequests) = maxFiles
    /\ FileRequests[1].path \in world.unreadable
    /\ Len(output.warnings) = 2
    /\ Len(output.result.files) = maxFiles - 2
    /\ output.result.files[1].file_path = FileRequests[2].path

\* C13: a context returned for a trigger result with a non-null resourceType
\* holds exactly one of issue and mergeRequest, the one resourceType names.
C13_ExactlyOneResource ==
    (Fetched /\ ~output.threw /\ locals.triggerResult.resourceType # Null) =>
        LET context == output.result
            hasIssue == context.issue # Undefined
            hasMergeRequest == context.mergeRequest # Undefined
        IN  /\ hasIssue # hasMergeRequest
            /\ hasIssue => locals.triggerResult.resourceType = Str("issue")
            /\ hasMergeRequest =>
                   locals.triggerResult.resourceType = Str("merge_request")

(***************************************************************************)
(* The CI pipeline path.  The script gitlab:process (package.json) runs    *)
(* the validate entrypoint and, when that exits with 0, the prepare        *)
(* entrypoint.  The world adds the environment of the job (env) to the     *)
(* GitLab instance; mkdir and writeFile count as collaborator calls too.   *)
(***************************************************************************)
s_claudeSlash == <<"c","l","a","u","d","e","/">>
s_issueDash == <<"i","s","s","u","e","-">>
s_mrDash == <<"m","r","-">>
s_promptFile == <<"/","t","m","p","/","c","l","a","u","d","e","-","p","r","o","m","p","t","s","/","c","l","a","u","d","e","-","p","r","o","m","p","t",".","t","x","t">>
s_promptDir == <<"/","t","m","p","/","c","l","a","u","d","e","-","p","r","o","m","p","t","s">>

\* `${value}` in a template literal
ToText(v) ==
    CASE v.t = "number" -> <<ToString(v.n)>>
      [] v.t = "string" -> NameText(v.s)
      [] v.t = "null" -> <<"null">>
      [] v.t = "undefined" -> <<"undefined">>
      [] OTHER -> <<"[object Object]">>

\* !value for a text that may be undefined
unset(v) == ~v.present \/ v.items = <<>>

\* `${value}` for a text that may be undefined
TextOf(v) == IF v.present THEN v.items ELSE <<"undefined">>

\* the action configuration main builds when the optional variables of
\* the job are not set
actionConfig ==
    [triggerPhrase |-> s_atclaude, assigneeTrigger |-> <<>>, labelTrigger |-> s_claude,
     branchPrefix |-> s_claudeSlash, baseBranch |-> p_main,
     allowedTools |-> Absent, disallowedTools |-> Absent]

\* mutant: the caller's allowed tools are not added
buildAllowedToolsString_BaseOnly(customAllowedTools) == join(BASE_ALLOWED_TOOLS)

buildAllowedToolsString(customAllowedTools) ==
    IF customAllowedTools.present /\ Len(customAllowedTools.items) > 0
    THEN join(BASE_ALLOWED_TOOLS) \o <<",">> \o join(customAllowedTools.items)
    ELSE join(BASE_ALLOWED_TOOLS)

\* mutant: the token is not required
requiredEnvironment_NoToken(env) ==
    /\ Truthy(env.GITLAB_URL)
    /\ ~unset(env.CLAUDE_TRIGGER_DATA)

\* the two checks main makes before it does anything else
requiredEnvironment(env) ==
    /\ Truthy(env.GITLAB_URL) /\ Truthy(env.GITLAB_TOKEN)
    /\ ~unset(env.CLAUDE_TRIGGER_DATA)

\* mutant: trigger data that cannot be read stand for issue 1 of project 7
readTriggerData_Lenient(claudeTriggerData) ==
    LET parsed == JSONparse(claudeTriggerData)
        triggerData == IF parsed.threw \/ ~CanRead(parsed.result)
                       THEN Obj(<<<<"resourceType", Str("issue")>>,
                                  <<"resourceId", Num(1)>>, <<"projectId", Num(7)>>>>)
                       ELSE parsed.result
    IN  Return([shouldTrigger |-> TRUE,
                triggerType |-> Get(triggerData, "triggerType"),
                resourceType |-> Get(triggerData, "resourceType"),
                resourceId |-> Get(triggerData, "resourceId"),
                projectId |-> Get(triggerData, "projectId"),
                triggeredBy |-> Get(triggerData, "triggeredBy"),
                triggerComment |-> Get(triggerData, "triggerComment")])

\* lines 29-38 of main: JSON.parse and the trigger result built from it
readTriggerData(claudeTriggerData) ==
    LET parsed == JSONparse(claudeTriggerData) IN
    IF parsed.threw THEN Throw
    ELSE LET triggerData == parsed.result IN
         IF ~CanRead(triggerData) THEN Throw
         ELSE Return([shouldTrigger |-> TRUE,
                      triggerType |-> Get(triggerData, "triggerType"),
                      resourceType |-> Get(triggerData, "resourceType"),
                      resourceId |-> Get(triggerData, "resourceId"),
                      projectId |-> Get(triggerData, "projectId"),
                      triggeredBy |-> Get(triggerData, "triggeredBy"),
                      triggerComment |-> Get(triggerData, "triggerComment")])

\* mutant: the error of createBranch is not caught
tryCreateBranch_Propagate(w, projectId, branch, ref) ==
    [threw |-> "createBranch" \in w.failing,
     requests |-> <<[call |-> "createBranch", id |-> projectId,
                     path |-> branch, ref |-> ref]>>]

\* try { createBranch } catch { log }: the branch may exist already
tryCreateBranch(w, projectId, branch, ref) ==
    [threw |-> FALSE,
     requests |-> <<[call |-> "createBranch", id |-> projectId,
                     path |-> branch, ref |-> ref]>>]

\* mutant: the progress comment is posted a second time
createNote_Again(w, name, resourceId) ==
    [threw |-> name \in w.failing,
     requests |-> <<Request(name, resourceId), Request(name, resourceId)>>,
     id |-> <<ToString(w.newNoteId)>>]

\* createIssueNote / createMergeRequestNote and the id of the new note
createNote(w, name, resourceId) ==
    [threw |-> name \in w.failing,
     requests |-> <<Request(name, resourceId)>>,
     id |-> <<ToString(w.newNoteId)>>]          \* initialComment.id.toString()

BootstrapThrew(reqs) ==
    [threw |-> TRUE, requests |-> reqs, claudeBranch |-> Absent,
     claudeCommentId |-> Absent]

\* lines 77-124 of main: the working branch and the progress comment
bootstrap(w, cfg, triggerResult, context) ==
    IF triggerResult.resourceType = Str("issue")
    THEN LET claudeBranch == cfg.branchPrefix \o s_issueDash
                                 \o ToText(triggerResult.resourceId)
             branch == tryCreateBranch(w, triggerResult.projectId, claudeBranch,
                                       cfg.baseBranch)
             note == createNote(w, "createIssueNote", triggerResult.resourceId)
         IN  IF branch.threw THEN BootstrapThrew(branch.requests)
             ELSE IF note.threw THEN BootstrapThrew(branch.requests \o note.requests)
             ELSE [threw |-> FALSE, requests |-> branch.requests \o note.requests,
                   claudeBranch |-> Present(claudeBranch),
                   claudeCommentId |-> Present(note.id)]
    ELSE IF triggerResult.resourceType = Str("merge_request")
    THEN LET mr == context.mergeRequest IN
         IF ~CanRead(mr) THEN BootstrapThrew(<<>>)
         ELSE LET opened == mr.state = "opened"
                  claudeBranch == IF opened THEN mr.source_branch
                                  ELSE cfg.branchPrefix \o s_mrDash
                                           \o ToText(triggerResult.resourceId)
                  branch == IF opened THEN [threw |-> FALSE, requests |-> <<>>]
                            ELSE tryCreateBranch(w, triggerResult.projectId,
                                                 claudeBranch, cfg.baseBranch)
                  note == createNote(w, "createMergeRequestNote",
                                     triggerResult.resourceId)
              IN  IF branch.threw THEN BootstrapThrew(branch.requests)
                  ELSE IF note.threw
                  THEN BootstrapThrew(branch.requests \o note.requests)
                  ELSE [threw |-> FALSE,
                        requests |-> branch.requests \o note.requests,
                        claudeBranch |-> Present(claudeBranch),
                        claudeCommentId |-> Present(note.id)]
    ELSE BootstrapThrew(<<>>)

\* the event-type label and the description of the trigger
Label(eventType, triggerContext) ==
    [eventType |-> eventType, triggerContext |-> triggerContext]

getEventTypeAndContext(context, cfg) ==
    LET triggerResult == context.triggerResult
        quoted(text, value) == <<text>> \o value \o <<"'">>
    IN  CASE triggerResult.triggerType = Str("comment") ->
                 IF Truthy(context.mergeRequest)
                 THEN Label("MR_COMMENT",
                            quoted("merge request comment with '", cfg.triggerPhrase))
                 ELSE Label("ISSUE_COMMENT",
                            quoted("issue comment with '", cfg.triggerPhrase))
          [] triggerResult.triggerType = Str("assignee") ->
                 IF Truthy(context.mergeRequest)
                 THEN Label("MR_ASSIGNED",
                            quoted("merge request assigned to '", cfg.assigneeTrigger))
                 ELSE Label("ISSUE_ASSIGNED",
                            quoted("issue assigned to '", cfg.assigneeTrigger))
          [] triggerResult.triggerType = Str("label") ->
                 IF Truthy(context.mergeRequest)
                 THEN Label("MR_LABELED",
                            quoted("merge request labeled with '", cfg.labelTrigger))
                 ELSE Label("ISSUE_LABELED",
                            quoted("issue labeled with '", cfg.labelTrigger))
          [] triggerResult.triggerType = Str("direct") ->
                 Label("DIRECT_TRIGGER", <<"direct programmatic trigger">>)
          [] OTHER -> Label("UNKNOWN", <<"unknown trigger type">>)

\* generatePrompt, as the parts of the prompt that depend on its arguments;
\* resourceNumber reads the iid of the merge request or else of the issue,
\* sanitizeMarkdown calls replace on the body of the trigger comment
generatePrompt(context, cfg, claudeCommentId, claudeBranch) ==
    LET label == getEventTypeAndContext(context, cfg)
        isMR == Truthy(context.mergeRequest)
        triggerComment == context.triggerResult.triggerComment
        body == Get(triggerComment, "body")
    IN  IF ~isMR /\ ~CanRead(context.issue) THEN Throw
        ELSE IF Truthy(triggerComment) /\ body.t # "string" THEN Throw
        ELSE Return([eventType |-> label.eventType,
                     triggerContext |-> label.triggerContext,
                     isMR |-> isMR,
                     resourceNumber |-> IF isMR THEN context.mergeRequest.iid
                                        ELSE context.issue.iid,
                     triggerComment |-> IF Truthy(triggerComment)
                                        THEN Present(<<body>>) ELSE Absent,
                     claudeCommentId |-> claudeCommentId,
                     claudeBranch |-> claudeBranch])

\* mutant: a failed mkdir or writeFile is passed over
writePrompt_IgnoreFailure(w) ==
    [threw |-> FALSE,
     requests |-> <<[call |-> "mkdir", id |-> Null, path |-> s_promptDir, ref |-> <<>>],
                    [call |-> "writeFile", id |-> Null, path |-> s_promptFile,
                     ref |-> <<>>]>>]

\* mkdir of the scratch directory, then writeFile of the prompt
writePrompt(w) ==
    LET made == [call |-> "mkdir", id |-> Null, path |-> s_promptDir, ref |-> <<>>]
        wrote == [call |-> "writeFile", id |-> Null, path |-> s_promptFile, ref |-> <<>>]
    IN  IF "mkdir" \in w.failing THEN [threw |-> TRUE, requests |-> <<made>>]
        ELSE [threw |-> "writeFile" \in w.failing, requests |-> <<made, wrote>>]

\* createGitLabPrompt: mkdir, generatePrompt, writeFile, then the tool
\* strings; its catch block ends the process with exit(1)
createGitLabPrompt(w, context, cfg, claudeCommentId, claudeBranch) ==
    LET written == writePrompt(w)
        prompt == generatePrompt(context, cfg, claudeCommentId, claudeBranch)
        exit(reqs) == [exited |-> TRUE, requests |-> reqs, exports |-> <<>>,
                       result |-> Undefined, file |-> Absent]
    IN  IF Len(written.requests) < 2 THEN exit(written.requests)
        ELSE IF prompt.threw THEN exit(SubSeq(written.requests, 1, 1))
        ELSE IF written.threw THEN exit(written.requests)
        ELSE LET allAllowedTools == buildAllowedToolsString(cfg.allowedTools)
                 allDisallowedTools == buildDisallowedToolsString(cfg.disallowedTools,
                                                                  cfg.allowedTools)
             IN  [exited |-> FALSE, requests |-> written.requests,
                  exports |-> <<<<"ALLOWED_TOOLS", allAllowedTools>>,
                                <<"DISALLOWED_TOOLS", allDisallowedTools>>>>,
                  result |-> [t |-> "object", promptFile |-> s_promptFile,
                              allowedTools |-> allAllowedTools,
                              disallowedTools |-> allDisallowedTools],
                  file |-> Present(<<prompt.result>>)]

\* mutant: the base branch is exported whatever the working branch is
exportOutputs_BaseBranch(env, cfg, l) ==
    <<<<"CLAUDE_COMMENT_ID", TextOf(l.claudeCommentId)>>,
      <<"PROJECT_ID", ToText(l.triggerResult.projectId)>>,
      <<"RESOURCE_TYPE", ToText(l.triggerResult.resourceType)>>,
      <<"RESOURCE_IID", ToText(l.triggerResult.resourceId)>>,
      <<"BRANCH_NAME", cfg.baseBranch>>,
      <<"GITLAB_URL", ToText(env.GITLAB_URL)>>,
      <<"GITLAB_TOKEN", ToText(env.GITLAB_TOKEN)>>,
      <<"ALLOWED_TOOLS", l.promptResult.allowedTools>>,
      <<"DISALLOWED_TOOLS", l.promptResult.disallowedTools>>>>

\* lines 134-143 of main
exportOutputs(env, cfg, l) ==
    <<<<"CLAUDE_COMMENT_ID", TextOf(l.claudeCommentId)>>,
      <<"PROJECT_ID", ToText(l.triggerResult.projectId)>>,
      <<"RESOURCE_TYPE", ToText(l.triggerResult.resourceType)>>,
      <<"RESOURCE_IID", ToText(l.triggerResult.resourceId)>>,
      <<"BRANCH_NAME", IF unset(l.claudeBranch) THEN cfg.baseBranch
                       ELSE l.claudeBranch.items>>,
      <<"GITLAB_URL", ToText(env.GITLAB_URL)>>,
      <<"GITLAB_TOKEN", ToText(env.GITLAB_TOKEN)>>,
      <<"ALLOWED_TOOLS", l.promptResult.allowedTools>>,
      <<"DISALLOWED_TOOLS", l.promptResult.disallowedTools>>>>

\* mutant: the prompt is assembled right after the context was fetched
stepAfter_SkipBootstrap(step) ==
    CASE step = "validate" -> "prepare"
      [] step = "prepare" -> "fetch"
      [] step = "fetch" -> "prompt"
      [] step = "bootstrap" -> "prompt"
      [] step = "prompt" -> "export"
      [] OTHER -> "exited"

\* the order of the steps of gitlab:process and of main
stepAfter(step) ==
    CASE step = "validate" -> "prepare"
      [] step = "prepare" -> "fetch"
      [] step = "fetch" -> "bootstrap"
      [] step = "bootstrap" -> "prompt"
      [] step = "prompt" -> "export"
      [] OTHER -> "exited"

(***************************************************************************)
(* The jobs the pipeline path runs in.                                     *)
(***************************************************************************)
MaxFailures == 2    \* at most MaxFailures collaborator calls fail in a run

EnvValues == {Undefined, Str(""), Str("https://gitlab.example.com")}
Env(url, token, data) ==
    [GITLAB_URL |-> url, GITLAB_TOKEN |-> token, CLAUDE_TRIGGER_DATA |-> data]
GoodEnv(data) == Env(Str("https://gitlab.example.com"), Str("glpat"), Present(data))

\* the trigger data handleWebhook writes for a comment on a resource
TargetBlob(resourceType, iid) ==
    JSONstringify(Obj(<<<<"triggerType", Str("comment")>>,
                        <<"resourceType", Str(resourceType)>>,
                        <<"resourceId", Num(iid)>>,
                        <<"projectId", Num(7)>>,
                        <<"triggeredBy", Null>>>>))

PipelineCalls ==
    ClientCalls \cup {"createBranch", "createIssueNote", "createMergeRequestNote",
                      "mkdir", "writeFile"}
FailureSets == {f \in SUBSET PipelineCalls : Cardinality(f) <= MaxFailures}

PipelineWorld(env, failing, unreadable, state) ==
    [env |-> env, newNoteId |-> 501]
    @@ World(<<Diff(p_a \o p_ts, FALSE), Diff(Filler(1), FALSE)>>, unreadable,
             failing, state)

PipelineWorlds ==
    \* the required variables vary
    {PipelineWorld(Env(url, token, data), {}, {}, "opened") :
         url \in EnvValues, token \in EnvValues,
         data \in {Absent, Present(<<>>), Present(TargetBlob("merge_request", 1))}}
    \* the trigger data vary
    \cup {PipelineWorld(GoodEnv(blob), {}, {}, "opened") : blob \in TriggerBlobs}
    \* the failing calls vary
    \cup {PipelineWorld(GoodEnv(TargetBlob(resourceType, 1)), failing, unreadable, state) :
              resourceType \in {"issue", "merge_request"},
              failing \in FailureSets,
              unreadable \in {{}, {Filler(1)}},
              state \in {"opened", "closed", "merged"}}

InitPipeline ==
    /\ config = DefaultConfig
    /\ call = [op |-> "none"]
    /\ world \in PipelineWorlds
    /\ pc = "validate"
    /\ requests = <<>>
    /\ locals = [kind |-> "prepare", triggerResult |-> Undefined,
                 context |-> Undefined, claudeBranch |-> Absent,
                 claudeCommentId |-> Absent, promptResult |-> Undefined]
    /\ output = [kind |-> "pipeline", exports |-> <<>>, exitCode |-> 0,
                 errors |-> <<>>, promptFile |-> Absent]

\* main of the validate entrypoint
RunValidate ==
    /\ pc = "validate"
    /\ LET claudeTriggerData == world.env.CLAUDE_TRIGGER_DATA
           triggerResult == IF unset(claudeTriggerData) THEN Return(AllNullResult)
                            ELSE validatePipelineTrigger(claudeTriggerData.items)
       IN  IF triggerResult.threw
           THEN /\ pc' = "exited"
                /\ output' = [output EXCEPT
                       !.exports = Append(@, <<"TRIGGER_VALID", <<"false">>>>),
                       !.exitCode = 1,
                       !.errors = Append(@, "Trigger validation error")]
           ELSE /\ pc' = stepAfter(pc)
                /\ output' = [output EXCEPT !.exports =
                       Append(@, <<"TRIGGER_VALID",
                                   IF triggerResult.result.shouldTrigger
                                   THEN <<"true">> ELSE <<"false">>>>)]
    /\ UNCHANGED <<config, call, world, requests, locals>>

\* the catch block of main of the prepare entrypoint
catchAndExit ==
    /\ pc' = "exited"
    /\ output' = [output EXCEPT !.exitCode = 1,
                                !.errors = Append(@, "GitLab preparation failed")]

\* main of the prepare entrypoint, lines 14-38
PrepareStart ==
    /\ pc = "prepare"
    /\ LET attempt == IF requiredEnvironment(world.env)
                      THEN readTriggerData(world.env.CLAUDE_TRIGGER_DATA.items)
                      ELSE Throw
       IN  IF attempt.threw THEN catchAndExit /\ UNCHANGED locals
           ELSE /\ locals' = [locals EXCEPT !.triggerResult = attempt.result]
                /\ pc' = stepAfter(pc)
                /\ UNCHANGED output
    /\ UNCHANGED <<config, call, world, requests>>

\* lines 65-67
PrepareFetch ==
    /\ pc = "fetch"
    /\ LET r == fetchFullContext(world, locals.triggerResult.projectId,
                                 locals.triggerResult) IN
          /\ requests' = requests \o r.requests
          /\ IF r.threw THEN catchAndExit /\ UNCHANGED locals
             ELSE /\ locals' = [locals EXCEPT !.context = r.result]
                  /\ pc' = stepAfter(pc)
                  /\ UNCHANGED output
    /\ UNCHANGED <<config, call, world>>

\* lines 77-124
PrepareBootstrap ==
    /\ pc = "bootstrap"
    /\ LET r == bootstrap(world, actionConfig, locals.triggerResult, locals.context) IN
          /\ requests' = requests \o r.requests
          /\ IF r.threw THEN catchAndExit /\ UNCHANGED locals
             ELSE /\ locals' = [locals EXCEPT !.claudeBranch = r.claudeBranch,
                                              !.claudeCommentId = r.claudeCommentId]
                  /\ pc' = stepAfter(pc)
                  /\ UNCHANGED output
    /\ UNCHANGED <<config, call, world>>

\* lines 126-132
PreparePrompt ==
    /\ pc = "prompt"
    /\ LET r == createGitLabPrompt(world, locals.context, actionConfig,
                                   locals.claudeCommentId, locals.claudeBranch) IN
          /\ requests' = requests \o r.requests
          /\ IF r.exited
             THEN /\ pc' = "exited"
                  /\ output' = [output EXCEPT
                         !.exitCode = 1,
                         !.errors = Append(@, "Create GitLab prompt failed")]
                  /\ UNCHANGED locals
             ELSE /\ locals' = [locals EXCEPT !.promptResult = r.result]
                  /\ pc' = stepAfter(pc)
                  /\ output' = [output EXCEPT !.exports = @ \o r.exports,
                                              !.promptFile = r.file]
    /\ UNCHANGED <<config, call, world>>

\* lines 134-148
PrepareExport ==
    /\ pc = "export"
    /\ output' = [output EXCEPT
           !.exports = @ \o exportOutputs(world.env, actionConfig, locals)]
    /\ pc' = stepAfter(pc)
    /\ UNCHANGED <<config, call, world, requests, locals>>

NextPipeline ==
    \/ RunValidate
    \/ PrepareStart
    \/ PrepareFetch
    \/ PrepareBootstrap
    \/ PreparePrompt
    \/ PrepareExport

SpecPipeline == InitPipeline /\ [][NextPipeline]_vars

(***************************************************************************)
(* Properties of the CI pipeline path.                                     *)
(***************************************************************************)
InPipeline == output.kind = "pipeline"
Exited == InPipeline /\ pc = "exited"
Exported(name) == \E i \in 1..Len(output.exports) : output.exports[i][1] = name
Asked(name) == \E i \in 1..Len(requests) : requests[i].call = name
Count(name) == Cardinality({i \in 1..Len(requests) : requests[i].call = name})
NoteCalls == {"createIssueNote", "createMergeRequestNote"}

\* the job's trigger data are text that JSON.parse rejects
UnparseableData ==
    /\ ~unset(world.env.CLAUDE_TRIGGER_DATA)
    /\ JSONparse(world.env.CLAUDE_TRIGGER_DATA.items).threw

\* C17: an unparseable trigger-data blob is recovered in the pipeline path
\* (validate entrypoint, then prepare entrypoint): no parse error reaches
\* the top level, nothing is requested and the exit code stays 0.
C17_UnparseableNeverFails ==
    (InPipeline /\ UnparseableData
        /\ Truthy(world.env.GITLAB_URL) /\ Truthy(world.env.GITLAB_TOKEN)) =>
        /\ output.errors = <<>>
        /\ output.exitCode = 0
        /\ requests = <<>>

\* the run has a target that fetchFullContext reads
Targeted ==
    /\ locals.triggerResult # Undefined
    /\ \/ fetchesIssue(locals.triggerResult)
       \/ fetchesMergeRequest(locals.triggerResult)

\* a request of the run was answered with an error, getFile not counted
FailedCall(ignored) ==
    \E i \in 1..Len(requests) : requests[i].call \in world.failing \ ignored

\* C18 as stated: per-file fetch failures are the only collaborator errors
\* the prepare run swallows; any other failed call makes it exit non-zero.
C18_OnlyFileFailuresSwallowed ==
    (Exited /\ Targeted) => (FailedCall({}) => output.exitCode # 0)

\* C18 amended: per-file fetch failures and branch-creation failures are
\* swallowed; a prepare run on a target exits non-zero exactly when another
\* call it issued (project, issue/MR, notes, commits, changes, progress
\* comment, mkdir, writeFile) failed.
C18_FileAndBranchFailuresSwallowed ==
    (Exited /\ Targeted) =>
        (output.exitCode # 0 <=> FailedCall({"createBranch"}))

\* a run that ends with 0 although createBranch and a file read failed
C18_Witness ==
    /\ Exited /\ Targeted
    /\ output.exitCode = 0
    /\ Asked("createBranch") /\ "createBranch" \in world.failing
    /\ \E i \in 1..Len(requests) :
           requests[i].call = "getFile" /\ requests[i].path \in world.unreadable
    /\ Exported("CLAUDE_COMMENT_ID")

\* the step a request belongs to
StepOf(request) ==
    CASE request.call \in ClientCalls \cup {"getFile"} -> "fetch"
      [] request.call \in NoteCalls \cup {"createBranch"} -> "bootstrap"
      [] OTHER -> "prompt"

InOrder(rank) ==
    \A i \in 1..Len(requests) : \A j \in (i + 1)..Len(requests) :
        rank[StepOf(requests[i])] <= rank[StepOf(requests[j])]

\* C19 as stated: branch/comment bootstrap, then Context Fetcher, then
\* Prompt Assembler, then export.
C19_BootstrapBeforeFetch ==
    InPipeline => InOrder([bootstrap |-> 1, fetch |-> 2, prompt |-> 3])

\* C19 amended: Context Fetcher, then branch/comment bootstrap, then Prompt
\* Assembler, then export; a step starts only when the one before it has
\* completed.
C19_FetchBeforeBootstrap ==
    InPipeline =>
        /\ InOrder([fetch |-> 1, bootstrap |-> 2, prompt |-> 3])
        /\ pc = "bootstrap" => locals.context # Undefined
        /\ pc = "prompt" => /\ locals.context # Undefined
                            /\ locals.claudeCommentId.present
        /\ pc = "export" => /\ locals.claudeCommentId.present
                            /\ locals.promptResult # Undefined
        /\ Exported("CLAUDE_COMMENT_ID") =>
               /\ pc = "exited"
               /\ Asked("getProject")
               /\ \E name \in NoteCalls : Asked(name)
               /\ requests[Len(requests)].call = "writeFile"
               /\ "writeFile" \notin world.failing

\* a complete run on a closed merge request: all four steps have acted
C19_Witness ==
    /\ Exited
    /\ output.exitCode = 0
    /\ Asked("getMergeRequestChanges") /\ Asked("getFile")
    /\ Asked("createBranch") /\ Asked("createMergeRequestNote")
    /\ Asked("writeFile")
    /\ Exported("BRANCH_NAME")

PromptWriteFails == "mkdir" \in world.failing \/ "writeFile" \in world.failing

\* C20: when mkdir of the scratch directory or writeFile of the prompt
\* fails, createGitLabPrompt returns nothing, neither it nor main exports
\* an output, the write is not tried again and the process exits non-zero.
C20_PromptWriteAllOrNothing ==
    (InPipeline /\ PromptWriteFails /\ Asked("mkdir")) =>
        /\ pc = "exited"
        /\ output.exitCode = 1
        /\ locals.promptResult = Undefined
        /\ \A i \in 1..Len(output.exports) : output.exports[i][1] = "TRIGGER_VALID"
        /\ Count("mkdir") = 1
        /\ Count("writeFile") <= 1

\* writeFile failed after the progress comment had been created
C20_Witness ==
    /\ Exited
    /\ "writeFile" \in world.failing /\ "mkdir" \notin world.failing
    /\ Asked("createIssueNote")
    /\ Count("writeFile") = 1
    /\ output.exitCode = 1
    /\ output.errors = <<"Create GitLab prompt failed">>

(***************************************************************************)
(* The webhook receiver (webhook-receiver/src/server.ts) and its handler   *)
(* (webhook-handler.ts).  One delivery is followed from its arrival to the *)
(* response and to the end of the pipeline-trigger call.  The task is the  *)
(* promise of handleWebhook / handleManualTrigger.                         *)
(***************************************************************************)
s_secret == <<"s","3","c","r","e","t">>
s_wrong == <<"g","u","e","s","s">>
s_ManualTrigger == <<"M","a","n","u","a","l"," ","t","r","i","g","g","e","r">>

Response(status, error, message) ==
    Present(<<[status |-> status, error |-> error, message |-> message]>>)

\* the middleware of the primary endpoint: Absent stands for next()
verifyWebhookSignature(w, signature) ==
    IF unset(w.secret) THEN Absent
    ELSE IF unset(signature) THEN Response(401, "Missing webhook signature", "")
    ELSE IF signature.items # w.secret.items
    THEN Response(401, "Invalid webhook signature", "")
    ELSE Absent

\* triggerValidator.validateTrigger(req.body); a body without a project
\* makes the read of event.project.id throw
classify(cfg, body) ==
    IF ~body.present THEN Throw ELSE Return(validateTrigger(cfg, body.items[1]))

UserValue(user) ==
    IF user = Null THEN Null
    ELSE Obj(<<<<"id", Num(user.id)>>, <<"username", Str(user.username)>>,
               <<"name", Str(user.name)>>>>)

\* the data handleWebhook and handleManualTrigger hand to triggerPipeline,
\* the copy of the event left out
triggerData(triggerResult, projectId) ==
    Obj(<<<<"triggerType", triggerResult.triggerType>>,
          <<"resourceType", triggerResult.resourceType>>,
          <<"resourceId", triggerResult.resourceId>>,
          <<"projectId", projectId>>,
          <<"triggeredBy", UserValue(triggerResult.triggeredBy)>>>>)

\* mutant: the POST is sent without the check of the variables
triggerPipeline_Unchecked(w, projectId, data) ==
    [threw |-> FALSE,
     requests |-> <<[call |-> "triggerPipeline", id |-> projectId,
                     path |-> <<>>, ref |-> p_main,
                     data |-> JSONstringify(data)]>>]

\* triggerPipeline up to its await: the check of the variables and the
\* POST to the pipeline-trigger endpoint
triggerPipeline(w, projectId, data) ==
    IF ~Truthy(w.GITLAB_URL) \/ ~Truthy(w.GITLAB_TRIGGER_TOKEN)
    THEN [threw |-> TRUE, requests |-> <<>>]
    ELSE [threw |-> FALSE,
          requests |-> <<[call |-> "triggerPipeline", id |-> projectId,
                          path |-> <<>>, ref |-> p_main,
                          data |-> JSONstringify(data)]>>]

Started(triggerResult) ==
    Response(200, "",
             IF triggerResult.triggerType = Str("direct")
             THEN "Manual trigger started"
             ELSE "Webhook received and processing started")
InternalError == Response(500, "Internal server error", "")

\* mutant: the handler awaits handleWebhook, whose error reaches its catch
acknowledge_Awaited(triggerResult, started) ==
    IF started.threw THEN InternalError ELSE Started(triggerResult)

\* lines 100-112 of the handler: the promise is left to its catch callback
\* and the response is sent
acknowledge(triggerResult, started) == Started(triggerResult)

(***************************************************************************)
(* Deliveries and the server's environment.                                *)
(***************************************************************************)
Secrets == {Absent, Present(<<>>), Present(s_secret)}
Signatures == {Absent, Present(<<>>), Present(s_secret), Present(s_wrong)}
Answers == {"ok", "status", "network"}

WebhookBodies ==
    {Absent} \cup
    {Present(<<e>>) :
         e \in NoteEvents({Human, [Human EXCEPT !.username = s_al \o s_bot]},
                          {s_at \o s_Claude, s_al}, 1..MaxIid)
               \cup OtherEvents({Human})}

ManualBodies ==
    [projectId : {Num(0), Num(7)},
     resourceType : {Str(""), Str("issue"), Str("merge_request")},
     resourceId : {Null} \cup {Num(i) : i \in 1..MaxIid},
     prompt : {<<>>, s_atclaude}]

Deliveries ==
    [endpoint : {"webhook"}, signature : Signatures, body : WebhookBodies]
    \cup [endpoint : {"manual"}, signature : Signatures, body : ManualBodies]

Server(secret, url, token, answer, delivery) ==
    [kind |-> "server", secret |-> secret, GITLAB_URL |-> url,
     GITLAB_TRIGGER_TOKEN |-> token, answer |-> answer, delivery |-> delivery]

Servers ==
    \* the secret and the signature vary
    {Server(secret, Str("https://gitlab.example.com"), Str("glptt"), answer, d) :
         secret \in Secrets, answer \in {"ok"}, d \in Deliveries}
    \* the variables of the pipeline trigger and its answer vary
    \cup {Server(Absent, url, token, answer, d) :
              url \in EnvValues, token \in EnvValues, answer \in Answers,
              d \in {x \in Deliveries : x.signature = Absent}}

InitServer ==
    /\ config = DefaultConfig
    /\ call = [op |-> "none"]
    /\ world \in Servers
    /\ pc = "received"
    /\ requests = <<>>
    /\ locals = [kind |-> "delivery", classified |-> FALSE, task |-> "none"]
    /\ output = [kind |-> "http", response |-> Absent, log |-> <<>>]

Respond(response) == output' = [output EXCEPT !.response = response]

\* POST /webhook/gitlab: the middleware and the handler up to its response
PostWebhook ==
    /\ pc = "received"
    /\ world.delivery.endpoint = "webhook"
    /\ LET refused == verifyWebhookSignature(world, world.delivery.signature)
           attempt == classify(config, world.delivery.body)
           triggerResult == attempt.result
       IN  IF refused.present
           THEN /\ Respond(refused) /\ pc' = "done"
                /\ UNCHANGED <<requests, locals>>
           ELSE IF attempt.threw
           THEN /\ output' = [output EXCEPT
                       !.response = InternalError,
                       !.log = Append(@, "Error processing webhook")]
                /\ pc' = "done"
                /\ locals' = [locals EXCEPT !.classified = TRUE]
                /\ UNCHANGED requests
           ELSE IF ~triggerResult.shouldTrigger
           THEN /\ Respond(Response(200, "", "No action required"))
                /\ pc' = "done"
                /\ locals' = [locals EXCEPT !.classified = TRUE]
                /\ UNCHANGED requests
           ELSE LET started == triggerPipeline(world, triggerResult.projectId,
                                   triggerData(triggerResult, triggerResult.projectId))
                IN  /\ requests' = requests \o started.requests
                    /\ locals' = [locals EXCEPT
                           !.classified = TRUE,
                           !.task = IF started.threw THEN "rejected" ELSE "pending"]
                    /\ Respond(acknowledge(triggerResult, started))
                    /\ pc' = "detached"
    /\ UNCHANGED <<config, call, world>>

\* POST /trigger/manual up to the await of handleManualTrigger
PostManual ==
    /\ pc = "received"
    /\ world.delivery.endpoint = "manual"
    /\ LET body == world.delivery.body IN
       IF ~Truthy(body.projectId) \/ ~Truthy(body.resourceType)
          \/ ~Truthy(body.resourceId)
       THEN /\ Respond(Response(400,
                   "Missing required fields: projectId, resourceType, resourceId", ""))
            /\ pc' = "done"
            /\ UNCHANGED <<requests, locals>>
       ELSE LET triggerResult ==
                    validateDirectTrigger(config, body.projectId, body.resourceType,
                        body.resourceId,
                        IF body.prompt = <<>> THEN s_ManualTrigger ELSE body.prompt,
                        Undefined)
                started == triggerPipeline(world, triggerResult.projectId,
                               triggerData(triggerResult, triggerResult.projectId))
            IN  /\ requests' = requests \o started.requests
                /\ locals' = [locals EXCEPT
                       !.classified = TRUE,
                       !.task = IF started.threw THEN "rejected" ELSE "pending"]
                /\ pc' = "awaited"
                /\ UNCHANGED output
    /\ UNCHANGED <<config, call, world>>

\* the pipeline-trigger endpoint answers: lines 97-111 of triggerPipeline
PipelineAnswers ==
    /\ pc \in {"detached", "awaited"}
    /\ locals.task = "pending"
    /\ locals' = [locals EXCEPT
           !.task = IF world.answer = "ok" THEN "resolved" ELSE "rejected"]
    /\ output' = [output EXCEPT !.log =
           IF world.answer = "ok" THEN Append(@, "Pipeline triggered successfully")
           ELSE @]
    /\ UNCHANGED <<config, call, world, pc, requests>>

\* the detached promise settles: the catch block of handleWebhook and the
\* catch callback of the handler log the error
TaskSettles ==
    /\ pc = "detached"
    /\ locals.task \in {"resolved", "rejected"}
    /\ output' = [output EXCEPT !.log =
           IF locals.task = "rejected"
           THEN @ \o <<"Error handling webhook", "Error handling webhook">>
           ELSE @]
    /\ pc' = "done"
    /\ UNCHANGED <<config, call, world, requests, locals>>

\* POST /trigger/manual after the await
ManualResponds ==
    /\ pc = "awaited"
    /\ locals.task \in {"resolved", "rejected"}
    /\ IF locals.task = "rejected"
       THEN output' = [output EXCEPT
                !.response = InternalError,
                !.log = Append(@, "Error processing manual trigger")]
       ELSE Respond(Response(200, "", "Manual trigger started"))
    /\ pc' = "done"
    /\ UNCHANGED <<config, call, world, requests, locals>>

NextServer ==
    \/ PostWebhook
    \/ PostManual
    \/ PipelineAnswers
    \/ TaskSettles
    \/ ManualResponds

SpecServer == InitServer /\ [][NextServer]_vars

\* the pipeline path and the webhook receiver side by side
InitRuns == InitPipeline \/ InitServer
NextRuns == NextPipeline \/ NextServer
SpecRuns == InitRuns /\ [][NextRuns]_vars

(***************************************************************************)
(* Properties of the webhook receiver.                                     *)
(***************************************************************************)
OnServer == output.kind = "http"
Delivery == world.delivery
SecretConfigured == world.secret.present /\ world.secret.items # <<>>
CarriesSecret ==
    Delivery.signature.present /\ Delivery.signature.items = world.secret.items
Answered(status) ==
    output.response.present /\ output.response.items[1].status = status

\* C14: with GITLAB_WEBHOOK_SECRET configured, a request without a header
\* equal to the secret reaches neither the classifier nor the pipeline
\* trigger, on the primary and on the manual endpoint, and is answered 401.
C14_UnsignedNeverReachesCore ==
    (OnServer /\ SecretConfigured /\ ~CarriesSecret) =>
        /\ ~locals.classified
        /\ ~Asked("triggerPipeline")
        /\ output.response.present => Answered(401)

\* a delivery on the primary endpoint that passes the middleware and that
\* the classifier lets trigger
TriggeringDelivery ==
    /\ Delivery.endpoint = "webhook"
    /\ SecretConfigured => CarriesSecret
    /\ Delivery.body.present
    /\ validateTrigger(config, Delivery.body.items[1]).shouldTrigger

\* C15: on the primary endpoint a triggering delivery is classified first
\* and acknowledged while the pipeline-trigger call is still outstanding;
\* a failure of that call (missing configuration, non-2xx answer, network
\* error) is logged and leaves the response as it was; the 500 response
\* is sent only when classification itself threw.
C15_DetachedTaskNeverChangesResponse ==
    (OnServer /\ Delivery.endpoint = "webhook") =>
        /\ (TriggeringDelivery /\ pc # "received") =>
               /\ locals.classified
               /\ output.response =
                      Response(200, "", "Webhook received and processing started")
        /\ (TriggeringDelivery /\ pc = "done" /\ locals.task = "rejected") =>
               \E i \in 1..Len(output.log) : output.log[i] = "Error handling webhook"
        /\ Answered(500) => (locals.classified /\ ~Delivery.body.present)
        /\ locals.task # "none" => output.response.present

\* the acknowledgment stands while the trigger call is outstanding
C15_Witness ==
    /\ OnServer /\ TriggeringDelivery
    /\ pc = "detached"
    /\ locals.task = "pending"
    /\ world.answer = "network"
    /\ Asked("triggerPipeline")
    /\ Answered(200)

\* a required environment value of the run is absent or empty
PipelineEnvMissing ==
    \/ ~Truthy(world.env.GITLAB_URL)
    \/ ~Truthy(world.env.GITLAB_TOKEN)
    \/ unset(world.env.CLAUDE_TRIGGER_DATA)
ServerEnvMissing ==
    ~Truthy(world.GITLAB_URL) \/ ~Truthy(world.GITLAB_TRIGGER_TOKEN)

\* C16: a configuration error aborts before any call.  A prepare run
\* without GITLAB_URL, GITLAB_TOKEN or CLAUDE_TRIGGER_DATA issues no request
\* and exits with 1; a pipeline trigger of the webhook handler without
\* GITLAB_URL or GITLAB_TRIGGER_TOKEN fails without a request to the
\* pipeline-trigger endpoint.
C16_ConfigurationErrorBeforeAnyCall ==
    /\ (InPipeline /\ PipelineEnvMissing) =>
           /\ requests = <<>>
           /\ pc \in {"validate", "prepare", "exited"}
           /\ pc = "exited" => output.exitCode = 1
    /\ (OnServer /\ ServerEnvMissing) =>
           /\ requests = <<>>
           /\ locals.task \in {"none", "rejected"}
           /\ (locals.classified /\ pc = "done" /\ Delivery.endpoint = "manual")
                  => Answered(500)

\* the handler's pipeline trigger failed for want of the trigger token
C16_Witness ==
    /\ OnServer /\ TriggeringDelivery
    /\ Truthy(world.GITLAB_URL) /\ ~Truthy(world.GITLAB_TRIGGER_TOKEN)
    /\ pc = "done"
    /\ locals.task = "rejected"
    /\ requests = <<>>
    /\ Len(output.log) = 2

(***************************************************************************)
(* Order of the fetched context.                                           *)
(***************************************************************************)
\* the changed, non-deleted, non-excluded entries of the change list, in
\* the order of the list
SelectablePaths ==
    LET kept == SelectSeq(world.changes, LAMBDA d :
                    ~d.deleted_file /\ isRelevantFile(d.new_path))
    IN  [i \in 1..Len(kept) |-> kept[i].new_path]

\* sub[i..] can be read off full[j..] from left to right, skipping entries
RECURSIVE Embeds(_, _, _, _)
Embeds(sub, full, i, j) ==
    IF i > Len(sub) THEN TRUE
    ELSE IF j > Len(full) THEN FALSE
    ELSE IF sub[i] = full[j] THEN Embeds(sub, full, i + 1, j + 1)
    ELSE Embeds(sub, full, i, j + 1)

FirstOf(s, n) == SubSeq(s, 1, IF Len(s) < n THEN Len(s) ELSE n)

\* C21: Context.notes is the note sequence the collaborator returned, in
\* its order, and Context.files is an order-preserving subsequence of the
\* first 20 changed, non-deleted, non-excluded entries of the change list,
\* whichever file reads fail.
C21_ContextKeepsOrder ==
    (Fetched /\ ~output.threw) =>
        LET context == output.result
            paths == [i \in 1..Len(context.files) |-> context.files[i].file_path]
        IN  /\ (fetchesIssue(locals.triggerResult)
                   \/ fetchesMergeRequest(locals.triggerResult)) =>
                   context.notes = world.notes
            /\ Embeds(paths, FirstOf(SelectablePaths, 20), 1, 1)

\* more than 20 selectable files, two of the first 20 unreadable
C21_Witness ==
    /\ Fetched /\ ~output.threw
    /\ Len(SelectablePaths) > 20
    /\ Len(output.warnings) = 2
    /\ Len(output.result.files) = 18
    /\ Len(output.result.notes) = 2
    /\ output.result.files[18].file_path = SelectablePaths[19]

(***************************************************************************)
(* Event/context labelling (getEventTypeAndContext).  The label is         *)
(* computed for the contexts fetchFullContext returns.                     *)
(***************************************************************************)
TriggerTypes ==
    {Null, Str("comment"), Str("assignee"), Str("label"), Str("direct"), Str("pipeline")}

LabelTriggerResults ==
    {[tr EXCEPT !.triggerType = triggerType] :
         tr \in FetchTriggerResults, triggerType \in TriggerTypes}

QuietWorld ==
    World(<<Diff(p_a \o p_ts, FALSE), Diff(Filler(1), FALSE)>>, {}, {}, "opened")

InitLabel ==
    /\ config \in Configs
    /\ call = [op |-> "none"]
    /\ world = QuietWorld
    /\ \E tr \in LabelTriggerResults :
           locals = [kind |-> "label",
                     context |-> fetchFullContext(world, tr.projectId, tr).result]
    /\ pc = "label"
    /\ requests = <<>>
    /\ output = [kind |-> "none"]

GetEventTypeAndContext ==
    /\ pc = "label"
    /\ output' = [kind |-> "label",
                  label |-> getEventTypeAndContext(locals.context, config)]
    /\ pc' = "done"
    /\ UNCHANGED <<config, call, world, requests, locals>>

NextLabel == GetEventTypeAndContext

SpecLabel == InitLabel /\ [][NextLabel]_vars

Labelled == output.kind = "label"

MergeRequestLabels == {"MR_COMMENT", "MR_ASSIGNED", "MR_LABELED"}
IssueLabels == {"ISSUE_COMMENT", "ISSUE_ASSIGNED", "ISSUE_LABELED"}

\* the label the table of the specification gives
TableLabel(triggerType, isMergeRequest) ==
    CASE triggerType = Str("comment") ->
             IF isMergeRequest THEN "MR_COMMENT" ELSE "ISSUE_COMMENT"
      [] triggerType = Str("assignee") ->
             IF isMergeRequest THEN "MR_ASSIGNED" ELSE "ISSUE_ASSIGNED"
      [] triggerType = Str("label") ->
             IF isMergeRequest THEN "MR_LABELED" ELSE "ISSUE_LABELED"
      [] triggerType = Str("direct") -> "DIRECT_TRIGGER"
      [] OTHER -> "UNKNOWN"

\* C22: the event-type label is the one the table gives for triggerType and
\* the resource kind, and it carries the MR_ prefix exactly when
\* TriggerResult.resourceType is 'merge_request'.
C22_LabelAgreesWithResourceType ==
    Labelled =>
        LET triggerResult == locals.context.triggerResult
            eventType == output.label.eventType
        IN  /\ eventType = TableLabel(triggerResult.triggerType,
                                      Truthy(locals.context.mergeRequest))
            /\ eventType \in MergeRequestLabels \cup IssueLabels =>
                   (eventType \in MergeRequestLabels
                        <=> triggerResult.resourceType = Str("merge_request"))

(***************************************************************************)
(* The working branch of a prepare run.                                    *)
(***************************************************************************)
Completed == Exited /\ output.exitCode = 0 /\ Exported("BRANCH_NAME")

ExportOf(name) ==
    output.exports[CHOOSE i \in 1..Len(output.exports) : output.exports[i][1] = name][2]

BranchRequests == SelectSeq(requests, LAMBDA r : r.call = "createBranch")

\* creation of the branch from the base branch was requested, once
RequestedOnce(branch) ==
    /\ Len(BranchRequests) = 1
    /\ BranchRequests[1].path = branch
    /\ BranchRequests[1].ref = actionConfig.baseBranch
    /\ BranchRequests[1].id = locals.triggerResult.projectId

\* the request was made and the collaborator created the branch
CreatedNew(branch) == RequestedOnce(branch) /\ "createBranch" \notin world.failing

NewBranch(kind) ==
    actionConfig.branchPrefix \o kind \o ToText(locals.triggerResult.resourceId)

OnIssue == locals.triggerResult.resourceType = Str("issue")
OnMergeRequest == locals.triggerResult.resourceType = Str("merge_request")
OnOpenMergeRequest == OnMergeRequest /\ world.mergeRequest.state = "opened"

sanitizeEvent(event) ==
    LET attrs == event.object_attributes IN
    Obj(<<<<"object_kind", Str(event.object_kind)>>,
          <<"project", Obj(<<<<"id", Num(event.project.id)>>>>)>>,
          <<"user", UserValue(event.user)>>>>
        \o (IF event.object_kind = "note"
            THEN <<<<"note", Obj(<<<<"id", Num(attrs.id)>>,
                                   <<"body", Str(attrs.note)>>,
                                   <<"noteable_type", Str(attrs.noteable_type)>>,
                                   <<"noteable_id", Num(attrs.noteable_id)>>>>)>>>>
            ELSE <<>>)
        \o (IF event.object_kind = "issue"
            THEN <<<<"issue", Obj(<<<<"iid", Num(attrs.iid)>>,
                                    <<"title", Str(attrs.title)>>,
                                    <<"state", Str(attrs.state)>>>>)>>>>
            ELSE <<>>)
        \o (IF event.object_kind = "merge_request"
            THEN <<<<"merge_request", Obj(<<<<"iid", Num(attrs.iid)>>,
                                            <<"title", Str(attrs.title)>>,
                                            <<"state", Str(attrs.state)>>>>)>>>>
            ELSE <<>>))

\* the data handleWebhook hands to triggerPipeline
webhookData(event, triggerResult) ==
    Obj(triggerData(triggerResult, Num(event.project.id)).o
        \o <<<<"originalEvent", sanitizeEvent(event)>>>>)

HandoffEvents ==
    NoteEvents({Human}, {s_at \o s_Claude, s_al}, 1..MaxIid)
    \cup ResourceEvents("issue", {"opened"}, {Human}, {s_at \o s_Claude, s_al},
                        {<<>>}, 1..MaxIid)
    \cup ResourceEvents("merge_request", {"opened"}, {Human}, {s_at \o s_Claude, s_al},
                        {<<>>}, 1..MaxIid)
    \cup OtherEvents({Human})

HandoffWorld(event) ==
    [event |-> event, GITLAB_URL |-> Str("https://gitlab.example.com"),
     GITLAB_TRIGGER_TOKEN |-> Str("glptt")]
    @@ PipelineWorld(Env(Str("https://gitlab.example.com"), Str("glpat"), Absent),
                     {}, {}, "opened")

InitHandoff ==
    /\ config = DefaultConfig
    /\ call = [op |-> "none"]
    /\ world \in {HandoffWorld(event) : event \in HandoffEvents}
    /\ pc = "received"
    /\ requests = <<>>
    /\ locals = [kind |-> "prepare", triggerResult |-> Undefined,
                 context |-> Undefined, claudeBranch |-> Absent,
                 claudeCommentId |-> Absent, promptResult |-> Undefined]
    /\ output = [kind |-> "pipeline", exports |-> <<>>, exitCode |-> 0,
                 errors |-> <<>>, promptFile |-> Absent]

\* the webhook route past the signature check: validateTrigger, then
\* handleWebhook; the pipeline it starts runs with the posted variables
HandleWebhook ==
    /\ pc = "received"
    /\ LET triggerResult == validateTrigger(config, world.event) IN
       IF ~triggerResult.shouldTrigger
       THEN pc' = "done" /\ UNCHANGED <<world, requests>>
       ELSE LET started == triggerPipeline(world, Num(world.event.project.id),
                                           webhookData(world.event, triggerResult))
            IN  /\ requests' = requests \o started.requests
                /\ world' = [world EXCEPT !.env.CLAUDE_TRIGGER_DATA =
                                 Present(started.requests[1].data)]
                /\ pc' = "validate"
    /\ UNCHANGED <<config, call, locals, output>>

NextHandoff ==
    \/ HandleWebhook
    \/ RunValidate
    \/ PrepareStart
    \/ PrepareFetch
    \/ PrepareBootstrap
    \/ PreparePrompt
    \/ PrepareExport

SpecHandoff == InitHandoff /\ [][NextHandoff]_vars

OnHandoff == "event" \in DOMAIN world
Classified == validateTrigger(config, world.event)
Rebuilt == OnHandoff /\ locals.triggerResult # Undefined

\* the rebuilt trigger comment carries the body of the classifier's
SameComment(rebuilt, classified) ==
    IF classified.present
    THEN /\ Get(rebuilt, "body").t = "string"
         /\ Get(rebuilt, "body").s = classified.items[1].body
    ELSE ~Truthy(rebuilt)

\* C24: the TriggerResult the prepare entrypoint rebuilds from the trigger
\* data written by handleWebhook equals the classifier's on triggerType,
\* resourceType, resourceId, projectId, triggeredBy and triggerComment, and
\* for a comment trigger the prompt contains the body of the matched note.
C24_HandoffLossless ==
    Rebuilt =>
        /\ locals.triggerResult.triggerType = Classified.triggerType
        /\ locals.triggerResult.resourceType = Classified.resourceType
        /\ locals.triggerResult.resourceId = Classified.resourceId
        /\ locals.triggerResult.projectId = Classified.projectId
        /\ locals.triggerResult.triggeredBy = UserValue(Classified.triggeredBy)
        /\ SameComment(locals.triggerResult.triggerComment, Classified.triggerComment)
        /\ (output.promptFile.present /\ Classified.triggerComment.present) =>
               LET written == output.promptFile.items[1].triggerComment IN
               /\ written.present
               /\ written.items[1].s = Classified.triggerComment.items[1].body

\* the fields of the trigger data that do arrive
C24_OtherFieldsArrive ==
    Rebuilt =>
        /\ locals.triggerResult.triggerType = Classified.triggerType
        /\ locals.triggerResult.resourceType = Classified.resourceType
        /\ locals.triggerResult.resourceId = Classified.resourceId
        /\ locals.triggerResult.projectId = Classified.projectId
        /\ locals.triggerResult.triggeredBy = UserValue(Classified.triggeredBy)

(***************************************************************************)
(* Pipeline-trigger calls of the primary endpoint.                         *)
(***************************************************************************)
OnWebhook == OnServer /\ Delivery.endpoint = "webhook"

\* the classifier ran on the delivery and returned shouldTrigger = true
ClassifiedTrigger ==
    /\ locals.classified
    /\ Delivery.body.present
    /\ validateTrigger(config, Delivery.body.items[1]).shouldTrigger

\* the classifier ran on the delivery and returned shouldTrigger = false
ClassifiedQuiet ==
    /\ locals.classified
    /\ Delivery.body.present
    /\ ~validateTrigger(config, Delivery.body.items[1]).shouldTrigger

NoActionRequired == Response(200, "", "No action required")

\* C25 as stated: on the primary endpoint a pipeline-trigger call is issued
\* if and only if classification returned shouldTrigger = true, and then
\* exactly once; a non-triggering delivery is answered 'No action required'
\* and causes no pipeline-trigger call.
C25_TriggerCallIffShouldTrigger ==
    OnWebhook =>
        /\ pc # "received" =>
               Count("triggerPipeline") = (IF ClassifiedTrigger THEN 1 ELSE 0)
        /\ pc = "received" => requests = <<>>
        /\ ClassifiedQuiet =>
               output.response = NoActionRequired /\ ~Asked("triggerPipeline")

\* C25 amended: handleWebhook is started if and only if classification
\* returned shouldTrigger = true, once per delivery; it issues the
\* pipeline-trigger request once when GITLAB_URL and GITLAB_TRIGGER_TOKEN
\* are set and not at all when one of them is missing; a non-triggering
\* delivery is answered 'No action required' and causes no request.
C25_TriggerCallIffTriggeredAndConfigured ==
    OnWebhook =>
        /\ pc # "received" =>
               /\ locals.task # "none" <=> ClassifiedTrigger
               /\ Count("triggerPipeline") =
                      (IF ClassifiedTrigger /\ ~ServerEnvMissing THEN 1 ELSE 0)
        /\ pc = "received" => requests = <<>> /\ locals.task = "none"
        /\ ClassifiedQuiet =>
               output.response = NoActionRequired /\ ~Asked("triggerPipeline")
        /\ \A i \in 1..Len(requests) :
               requests[i].id = Num(Delivery.body.items[1].project.id)

\* a triggering delivery whose one request was answered
C25_Witness ==
    /\ OnWebhook /\ ClassifiedTrigger
    /\ ~ServerEnvMissing
    /\ pc = "done"
    /\ locals.task = "resolved"
    /\ Count("triggerPipeline") = 1

(***************************************************************************)
(* What validatePipelineTrigger accepts.                                   *)
(***************************************************************************)
\* the trigger data parse to an object that names an issue or a merge
\* request by number, in a project given by number
IdentifiesTarget(blob) ==
    LET parsed == JSONparse(blob) IN
    /\ ~parsed.threw
    /\ Get(parsed.result, "resourceType") \in {Str("issue"), Str("merge_request")}
    /\ Get(parsed.result, "resourceId").t = "number"
    /\ Get(parsed.result, "projectId").t = "number"

\* C26: validatePipelineTrigger returns shouldTrigger = true only for
\* trigger data that identify a target (resourceType 'issue' or
\* 'merge_request', resourceId and projectId numbers); every other blob,
\* parseable or not, yields shouldTrigger = false.
C26_PipelineTriggerNeedsTarget ==
    call.op = "validatePipelineTrigger" =>
        (call.result.shouldTrigger <=> IdentifiesTarget(call.triggerData))

(***************************************************************************)
(* The prepare run after a validate run that reported no valid trigger.    *)
(***************************************************************************)
ReportedInvalid ==
    /\ InPipeline
    /\ \E i \in 1..Len(output.exports) :
           output.exports[i] = <<"TRIGGER_VALID", <<"false">>>>

\* C27: in the sequence validate -> prepare, when the validate entrypoint
\* reports TRIGGER_VALID false for the trigger data, the prepare entrypoint
\* run on the same data issues no repository-API call, creates no branch
\* and no comment, and writes no prompt file.
C27_InvalidTriggerHasNoSideEffect ==
    ReportedInvalid =>
        /\ requests = <<>>
        /\ ~output.promptFile.present
        /\ locals.claudeBranch = Absent
        /\ locals.claudeCommentId = Absent
        /\ pc \in {"prepare", "exited"}
        /\ pc = "exited" => output.exitCode = 1

\* the prepare run on trigger data that are present but unparseable, with
\* the URL and the token in place, has ended
C27_Witness ==
    /\ ReportedInvalid
    /\ UnparseableData
    /\ Truthy(world.env.GITLAB_URL) /\ Truthy(world.env.GITLAB_TOKEN)
    /\ pc = "exited"
    /\ output.errors = <<"GitLab preparation failed">>
    /\ requests = <<>>

(***************************************************************************)
(* The two resolved tool lists of createGitLabPrompt.                      *)
(***************************************************************************)
ResolvableNames == {"WebFetch", "Bash", "Edit", ""}
ResolvableLists == {Absent} \cup {Present(l) : l \in SeqsUpTo(ResolvableNames, MaxTools)}

InitTools ==
    /\ config = DefaultConfig
    /\ call = [op |-> "none"]
    /\ Idle

\* lines 343-347 of createGitLabPrompt
ResolveTools ==
    /\ call.op = "none"
    /\ \E custom \in ResolvableLists, allowed \in ResolvableLists :
          call' = [op |-> "resolveTools",
                   customDisallowedTools |-> custom, allowedTools |-> allowed,
                   allAllowedTools |-> buildAllowedToolsString(allowed),
                   allDisallowedTools |-> buildDisallowedToolsString(custom, allowed)]
    /\ UNCHANGED <<config, run>>

NextTools == ResolveTools

SpecTools == InitTools /\ [][NextTools]_vars

Resolved == call.op = "resolveTools"

\* the tool names on both resolved lists
OnBothLists ==
    (Entries(call.allAllowedTools, "") \cap Entries(call.allDisallowedTools, "")) \ {""}

BaseAllowed == {BASE_ALLOWED_TOOLS[i] : i \in 1..Len(BASE_ALLOWED_TOOLS)}

\* C28 as stated: the allow-list built by buildAllowedToolsString and the
\* deny-list built by buildDisallowedToolsString share no tool name.
C28_ListsDisjoint == Resolved => OnBothLists = {}

\* C28 amended: a tool name is on both resolved lists exactly when the
\* caller lists it in disallowedTools and it is in the base allow-list or
\* in the caller's allowedTools; a base-denied tool the caller did not
\* disallow is never on both.
C28_SharedOnlyByCallerDeny ==
    Resolved =>
        \A tool \in (BaseAllowed \cup BaseDenied \cup ResolvableNames) \ {""} :
            tool \in OnBothLists <=>
                /\ Listed(tool, call.customDisallowedTools)
                /\ tool \in BaseAllowed \/ Listed(tool, call.allowedTools)

\* the caller allows WebFetch and Bash and denies Bash
C28_Witness ==
    /\ Resolved
    /\ call.allowedTools = Present(<<"WebFetch", "Bash">>)
    /\ call.customDisallowedTools = Present(<<"Bash">>)
    /\ OnBothLists = {"Bash"}
    /\ "WebFetch" \notin Entries(call.allDisallowedTools, "")

(***************************************************************************)
(* The progress comment of a prepare run.                                  *)
(***************************************************************************)
NoteRequests == SelectSeq(requests, LAMBDA r : r.call \in NoteCalls)

\* the note call that belongs to a resource type
NoteCallFor(resourceType) ==
    CASE resourceType = Str("issue") -> "createIssueNote"
      [] resourceType = Str("merge_request") -> "createMergeRequestNote"
      [] OTHER -> "none"

\* C29: a prepare run creates at most one progress comment, on the resource
\* the trigger result names (issue note for 'issue', merge-request note for
\* 'merge_request'); a run that completes created exactly one and exports
\* its id as CLAUDE_COMMENT_ID; for any other resourceType no comment and
\* no branch is created and the run fails.
C29_OneProgressComment ==
    InPipeline =>
        IF locals.triggerResult = Undefined THEN NoteRequests = <<>>
        ELSE LET triggerResult == locals.triggerResult IN
             /\ Len(NoteRequests) <= 1
             /\ \A i \in 1..Len(NoteRequests) :
                    /\ NoteRequests[i].call = NoteCallFor(triggerResult.resourceType)
                    /\ NoteRequests[i].id = triggerResult.resourceId
             /\ Completed =>
                    /\ Len(NoteRequests) = 1
                    /\ NoteRequests[1].call \notin world.failing
                    /\ ExportOf("CLAUDE_COMMENT_ID") = <<ToString(world.newNoteId)>>
             /\ NoteCallFor(triggerResult.resourceType) = "none" =>
                    /\ NoteRequests = <<>>
                    /\ BranchRequests = <<>>
                    /\ pc \in {"fetch", "bootstrap", "exited"}
                    /\ pc = "exited" => output.exitCode = 1

\* a completed run on an issue
C29_Witness ==
    /\ Completed
    /\ OnIssue
    /\ Len(NoteRequests) = 1
    /\ NoteRequests[1] = Request("createIssueNote", Num(1))
    /\ ExportOf("CLAUDE_COMMENT_ID") = <<"501">>

(***************************************************************************)
(* The commit_files tool of the file-operations server.  The callbacks of  *)
(* Promise.all run one per file and interleave at their awaits: readFile,  *)
(* then getFile.  The first rejected readFile rejects Promise.all, whose   *)
(* catch returns the error result; the other callbacks run on.             *)
(***************************************************************************)
MaxCommitFiles == 2     \* a call names at most MaxCommitFiles files

p_b == <<"b">>
p_slash == <<"/">>

\* lines 256-261: one leading slash is dropped
processedFile(filePath) ==
    IF startsWith(filePath, p_slash) THEN slice(filePath, 1, Len(filePath))
    ELSE filePath

\* mutant: a file that cannot be read is committed empty
readLocal_Empty(w, filePath) == Return(<<>>)

\* readFile(fullPath, "utf-8"); the content of a file is told by its path
readLocal(w, filePath) ==
    IF filePath \in w.unreadable THEN Throw ELSE Return(filePath)

\* lines 273-280: getFile answers for a file of the branch, every error of
\* getFile means create
commitAction(w, filePath) ==
    IF filePath \in w.onBranch THEN "update" ELSE "create"

FileAction(action, filePath, content) ==
    [action |-> action, file_path |-> filePath, content |-> content,
     encoding |-> "base64"]

CommitRequest(projectId, branch, actions) ==
    [call |-> "createCommit", id |-> projectId, path |-> <<>>, ref |-> branch,
     actions |-> actions]

ToolError == Present(<<[isError |-> TRUE]>>)
ToolResult == Present(<<[isError |-> FALSE]>>)

CommitPaths == {p_a, p_slash \o p_a, p_b}

Repos ==
    [kind : {"repo"}, projectId : {Num(7)}, branch : {p_feature},
     files : SeqsUpTo(CommitPaths, MaxCommitFiles),
     unreadable : SUBSET {p_a, p_b},
     onBranch : SUBSET {p_a, p_b},
     failing : {{}, {"createCommit"}}]

InitCommit ==
    /\ config = DefaultConfig
    /\ call = [op |-> "none"]
    /\ world \in Repos
    /\ pc = "commit"
    /\ requests = <<>>
    /\ locals = [kind |-> "commit",
                 stage |-> [i \in 1..Len(world.files) |-> "read"],
                 content |-> [i \in 1..Len(world.files) |-> <<>>],
                 actions |-> [i \in 1..Len(world.files) |->
                                  FileAction("none", <<>>, <<>>)],
                 settled |-> FALSE]
    /\ output = [kind |-> "tool", result |-> Absent]

\* lines 270: readFile of one file; its rejection rejects Promise.all
ReadFile ==
    /\ locals.kind = "commit"
    /\ \E i \in 1..Len(world.files) :
          /\ locals.stage[i] = "read"
          /\ LET read == readLocal(world, processedFile(world.files[i])) IN
             IF read.threw
             THEN /\ locals' = [locals EXCEPT !.stage[i] = "failed", !.settled = TRUE]
                  /\ IF locals.settled THEN UNCHANGED <<pc, output>>
                     ELSE /\ pc' = "returned"
                          /\ output' = [output EXCEPT !.result = ToolError]
             ELSE /\ locals' = [locals EXCEPT !.stage[i] = "check",
                                              !.content[i] = read.result]
                  /\ UNCHANGED <<pc, output>>
    /\ UNCHANGED <<config, call, world, requests>>

\* lines 272-287: getFile tells update from create
GetFile ==
    /\ locals.kind = "commit"
    /\ \E i \in 1..Len(world.files) :
          /\ locals.stage[i] = "check"
          /\ LET filePath == processedFile(world.files[i]) IN
             /\ requests' = Append(requests,
                                FileRequest(world.projectId, filePath, world.branch))
             /\ locals' = [locals EXCEPT
                    !.stage[i] = "done",
                    !.actions[i] = FileAction(commitAction(world, filePath), filePath,
                                              locals.content[i])]
    /\ UNCHANGED <<config, call, world, pc, output>>

\* lines 290-320: Promise.all resolved; createCommit and the result
CreateCommit ==
    /\ locals.kind = "commit"
    /\ ~locals.settled
    /\ \A i \in 1..Len(world.files) : locals.stage[i] = "done"
    /\ requests' = Append(requests,
                       CommitRequest(world.projectId, world.branch, locals.actions))
    /\ locals' = [locals EXCEPT !.settled = TRUE]
    /\ output' = [output EXCEPT !.result =
                      IF "createCommit" \in world.failing THEN ToolError
                      ELSE ToolResult]
    /\ pc' = "returned"
    /\ UNCHANGED <<config, call, world>>

NextCommit ==
    \/ ReadFile
    \/ GetFile
    \/ CreateCommit

SpecCommit == InitCommit /\ [][NextCommit]_vars

OnCommit == output.kind = "tool"
CommitRequests == SelectSeq(requests, LAMBDA r : r.call = "createCommit")
LocalReadFails ==
    \E i \in 1..Len(world.files) : processedFile(world.files[i]) \in world.unreadable

\* C30: each call of commit_files issues at most one createCommit, whose
\* actions hold exactly one action per requested file, in the order of the
\* request (update if getFile found the file on the branch, create
\* otherwise); if reading any of the local files fails, no commit is
\* created and an error result is returned.
C30_CommitFilesAtomic ==
    OnCommit =>
        /\ Len(CommitRequests) <= 1
        /\ \A k \in 1..Len(CommitRequests) :
               LET actions == CommitRequests[k].actions IN
               /\ CommitRequests[k].ref = world.branch
               /\ Len(actions) = Len(world.files)
               /\ \A i \in 1..Len(actions) :
                      LET filePath == processedFile(world.files[i]) IN
                      /\ actions[i].file_path = filePath
                      /\ actions[i].content = filePath
                      /\ actions[i].action =
                             (IF filePath \in world.onBranch THEN "update"
                              ELSE "create")
        /\ LocalReadFails =>
               /\ CommitRequests = <<>>
               /\ output.result \in {Absent, ToolError}
        /\ output.result = ToolResult =>
               Len(CommitRequests) = 1 /\ "createCommit" \notin world.failing
        /\ pc = "returned" <=> output.result.present

\* '/a' is on the branch and b is not; both are committed at once
C30_Witness ==
    /\ OnCommit
    /\ world.files = <<p_slash \o p_a, p_b>>
    /\ world.onBranch = {p_a}
    /\ output.result = ToolResult
    /\ Len(CommitRequests) = 1
    /\ CommitRequests[1].actions =
           <<FileAction("update", p_a, p_a), FileAction("create", p_b, p_b)>>

====
